---- MODULE Spec2Model ----
(***************************************************************************)
(* Particle morph animation engine of flybylow/3d-particles.               *)
(*                                                                         *)
(* The specifications of this module share its variables:                  *)
(*   Spec      the hero engine of components/HeroAnimation.tsx (first      *)
(*             snapshot, lines 98-565): the per-frame callback, the React  *)
(*             commit of the state it sets and the phase effect;           *)
(*   SpecSkip  the hero engine with pauses in which no frame is called;    *)
(*   SpecGen   the shape generators, applied to bounded inputs;            *)
(*   SpecPlace the vertical placement of a generated product vertex;       *)
(*   SpecStep  the interpolation and rotation tail of the frame callback,  *)
(*             applied to a small particle buffer;                         *)
(*   SpecStagger  the per-particle stagger of the interpolation;           *)
(*   SpecSct, SpecPassport, SpecPreloader  the ScanCheckTrust sequence,    *)
(*             the PassportParticlePhoto view and the Preloader;           *)
(*   SpecEngines  two engines of unnamed/part_001 side by side;            *)
(*   SpecTimeline  the engine stepped through a three-phase timeline;      *)
(*   SpecLoad  a mesh-sampled generator hook and its model load;           *)
(*   SpecTransition  the transition callbacks of the cycling branch;       *)
(*   SpecBars  the bar index recorded for every particle;                  *)
(*   SpecHomepage  the phase-change handler of the hero page;              *)
(*   SpecConsumer, FairConsumer  the Scan and Trace buttons of the         *)
(*             consumer page, without and with fair scheduling;            *)
(*   SpecTile  the product info panels under the hero page.                *)
(*                                                                         *)
(* Time is counted in ticks of 0.1 s.  Blend weights are exact rationals   *)
(* kept as numerator and denominator.                                      *)
(***************************************************************************)
EXTENDS Integers, Sequences, FiniteSets, TLC

VARIABLES
    now,                  \* clock.elapsedTime, in ticks
    phase,                \* React state `phase` as the frame callback's closure sees it
    currentProductIndex,  \* React state `currentProductIndex` as the closure sees it
    pendPhase,            \* setPhase value queued and not yet committed ("none" if none)
    pendIdx,              \* setCurrentProductIndex value queued (NoIdx if none)
    effectPending,        \* the [phase] effect is scheduled and has not run yet
    lag,                  \* frames run since the oldest queued update or effect
    phaseStartTime,       \* ref phaseStartTime.current
    productStartTime,     \* ref productStartTime.current
    rotationAngle,        \* ref rotationAngle.current, in units of 0.05 rad
    events,               \* the onPhaseChange calls made so far, in order
    target,               \* the target of the last frame (first bar's particles)
    gen,                  \* shape generators: input and output of one call
    step,                 \* interpolator: particle buffer and the frame's inputs
    ui                    \* a UI component beside the engine: its React state and timer

heroVars == <<now, phase, currentProductIndex, pendPhase, pendIdx, effectPending,
              lag, phaseStartTime, productStartTime, rotationAngle, events, target>>
vars == <<heroVars, gen, step, ui>>

----------------------------------------------------------------------------
(* Bounds of the model *)

MaxTime == 210        \* frames are run while the clock stays within MaxTime ticks
MaxDelta == 2         \* a frame's delta is 1..MaxDelta ticks
MaxLagFrames == 2     \* frames that may run before a queued commit or effect runs

----------------------------------------------------------------------------
(* Program constants, in ticks of 0.1 s *)

Intro == 35               \* timeline.intro = 3.5
ScanMoveTime == 20        \* timeline.scanMoveTime = 2.0
Preload == 40             \* timeline.preload = 4.0
ProductDuration == 60     \* timeline.productDuration = 6.0
TransformDuration == 15   \* timeline.transformDuration = 1.5
BottleHoldTime == 20      \* bottleHoldTime = 2.0
ScanHold == 3             \* scanCompleteTime = scanMoveTime + 0.3
MorphGap == 2             \* productMorphStart = scanCompleteTime + 0.2
NumProducts == 3          \* PRODUCTS.length, the `products` prop of HeroAnimation

NoIdx == NumProducts      \* "no queued index": not a product index
Phases == {"intro", "preload", "cycling"}

----------------------------------------------------------------------------
(* Pure helpers of the frame callback *)

Scatter == <<"scatter", 0>>
Barcode == <<"barcode", 0>>
Product(k) == <<"product", k>>

\* easeInOutCubic(n/d), as the numerator of a fraction over d^3
EaseInOutCubicNum(n, d) ==
    IF 2 * n < d THEN 4 * n * n * n
                 ELSE d * d * d - 4 * (d - n) * (d - n) * (d - n)

Min(a, b) == IF a < b THEN a ELSE b
Max(a, b) == IF a > b THEN a ELSE b

\* `elapsed > timeline.x`: the expiry test of every phase
ExpiredAtOrAfter(elapsed, duration) == elapsed >= duration
Expired(elapsed, duration) == elapsed > duration

\* (currentProductIndex + 1) % products.length
NextProductClamped(idx) == Min(idx + 1, NumProducts - 1)
NextProductIndex(idx) == (idx + 1) % NumProducts

ProductMorphStart == ScanMoveTime + ScanHold + MorphGap

\* shouldRotate as the switch sets it
ShouldRotateNoMorph(ph, elapsed, productElapsed) ==
    CASE ph = "intro" -> FALSE
      [] ph = "preload" -> elapsed < BottleHoldTime
      [] OTHER -> ~ (productElapsed > ProductDuration - TransformDuration)
ShouldRotate(ph, elapsed, productElapsed) ==
    CASE ph = "intro" -> FALSE
      [] ph = "preload" -> TRUE
      [] OTHER -> TRUE

\* the guard of the rotation block
RotationAlways(sr, ph) == TRUE
RotationEnabled(sr, ph) == sr /\ ph \in {"preload", "cycling"}

\* the target the switch computes, for the particles of the first bar:
\* a blend from one shape to another with weight num/den
TargetHoldOnly(ph, elapsed, productElapsed, idx) ==
    CASE ph = "intro" -> [from |-> Scatter, to |-> Barcode, num |-> 8, den |-> 8]
      [] ph = "preload" -> [from |-> Product(0), to |-> Product(0), num |-> 1, den |-> 1]
      [] OTHER -> [from |-> Product(idx), to |-> Product(idx), num |-> 1, den |-> 1]
TargetOf(ph, elapsed, productElapsed, idx) ==
    CASE ph = "intro" ->
           IF elapsed < ProductMorphStart
           THEN [from |-> Scatter, to |-> Barcode,
                 num |-> IF elapsed < Intro - 12
                         THEN EaseInOutCubicNum(Min(Max(elapsed, 0), 2), 2) ELSE 8,
                 den |-> 8]
           ELSE [from |-> Barcode, to |-> Product(0),
                 num |-> EaseInOutCubicNum(Min(2 * (elapsed - ProductMorphStart), 3), 3),
                 den |-> 27]
      [] ph = "preload" ->
           IF elapsed < BottleHoldTime
           THEN [from |-> Product(0), to |-> Product(0), num |-> 1, den |-> 1]
           ELSE [from |-> Product(0), to |-> Product(1),
                 num |-> EaseInOutCubicNum(
                            Min(elapsed - BottleHoldTime, Preload - BottleHoldTime),
                            Preload - BottleHoldTime),
                 den |-> (Preload - BottleHoldTime) * (Preload - BottleHoldTime)
                           * (Preload - BottleHoldTime)]
      [] OTHER ->
           IF productElapsed > ProductDuration - TransformDuration
           THEN [from |-> Product(idx), to |-> Product(NextProductIndex(idx)),
                 num |-> EaseInOutCubicNum(
                            productElapsed - (ProductDuration - TransformDuration),
                            TransformDuration),
                 den |-> TransformDuration * TransformDuration * TransformDuration]
           ELSE [from |-> Product(idx), to |-> Product(idx), num |-> 1, den |-> 1]

\* the phase the branch of a phase requests when it has expired:
\* setPhase('preload') in 'intro', setPhase('cycling') in 'preload'
NextPhaseSkipping(ph) == "cycling"
NextPhase(ph) == IF ph = "intro" THEN "preload" ELSE "cycling"

Event(ph, k) == [phase |-> ph, productIndex |-> k]

Pending == pendPhase # "none" \/ pendIdx # NoIdx \/ effectPending

----------------------------------------------------------------------------
(* The hero engine *)

Init ==
    /\ now = 0
    /\ phase = "intro"
    /\ currentProductIndex = 0
    /\ pendPhase = "none"
    /\ pendIdx = NoIdx
    /\ effectPending = FALSE
    /\ lag = 0
    /\ phaseStartTime = 0
    /\ productStartTime = 0
    /\ rotationAngle = 0
    /\ events = << >>
    /\ target = [from |-> Scatter, to |-> Scatter, num |-> 1, den |-> 1]
    /\ gen = [kind |-> "idle"]
    /\ step = [kind |-> "idle"]
    /\ ui = [kind |-> "idle"]

\* useFrame callback: one rendered frame, delta ticks after the previous one
Frame(delta) ==
    /\ now + delta <= MaxTime
    /\ Pending => lag < MaxLagFrames
    /\ LET t == now + delta
           elapsed == t - phaseStartTime
           productElapsed == t - productStartTime
           fire == CASE phase = "intro" -> Expired(elapsed, Intro)
                     [] phase = "preload" -> Expired(elapsed, Preload)
                     [] OTHER -> Expired(productElapsed, ProductDuration)
           toPhase == NextPhase(phase)
           toIdx == CASE phase = "intro" -> 0
                      [] phase = "preload" -> 1
                      [] OTHER -> NextProductIndex(currentProductIndex)
           sr == ShouldRotate(phase, elapsed, productElapsed)
       IN  /\ now' = t
           /\ target' = TargetOf(phase, elapsed, productElapsed, currentProductIndex)
           /\ IF fire
              THEN /\ pendPhase' = IF phase = "cycling" THEN pendPhase ELSE toPhase
                   /\ pendIdx' = toIdx
                   /\ events' = Append(events, Event(toPhase, toIdx))
                   /\ phaseStartTime' = IF phase = "intro" THEN t ELSE phaseStartTime
                   /\ productStartTime' = IF phase = "intro" THEN productStartTime ELSE t
              ELSE UNCHANGED <<pendPhase, pendIdx, events, phaseStartTime,
                               productStartTime>>
           /\ rotationAngle' =
                 IF RotationEnabled(sr, phase) THEN rotationAngle + delta
                 ELSE IF rotationAngle # 0 /\ ~ sr THEN 0
                 ELSE rotationAngle
           /\ lag' = IF Pending THEN lag + 1 ELSE 0
    /\ UNCHANGED <<phase, currentProductIndex, effectPending, gen, step, ui>>

\* React renders and commits the queued state: the frame callback's closure
\* now sees the new phase and product index, and a changed phase schedules
\* the [phase] effect
Commit ==
    /\ pendPhase # "none" \/ pendIdx # NoIdx
    /\ phase' = IF pendPhase # "none" THEN pendPhase ELSE phase
    /\ currentProductIndex' = IF pendIdx # NoIdx THEN pendIdx ELSE currentProductIndex
    /\ effectPending' = (effectPending \/ (pendPhase # "none" /\ pendPhase # phase))
    /\ pendPhase' = "none"
    /\ pendIdx' = NoIdx
    /\ lag' = IF effectPending' THEN lag ELSE 0
    /\ UNCHANGED <<now, phaseStartTime, productStartTime, rotationAngle, events,
                   target, gen, step, ui>>

\* useEffect on [phase]: phaseStartTime.current = clock.elapsedTime
PhaseEffect ==
    /\ effectPending
    /\ effectPending' = FALSE
    /\ phaseStartTime' = now
    /\ lag' = IF pendPhase # "none" \/ pendIdx # NoIdx THEN lag ELSE 0
    /\ UNCHANGED <<now, phase, currentProductIndex, pendPhase, pendIdx,
                   productStartTime, rotationAngle, events, target, gen, step, ui>>

Next ==
    \/ \E delta \in 1..MaxDelta : Frame(delta)
    \/ Commit
    \/ PhaseEffect

Spec == Init /\ [][Next]_vars

\* The hero engine when the host stops calling the frame callback for a
\* while (a tab in the background): clock.elapsedTime is the wall clock, so
\* the first frame after the pause sees the whole pause in its elapsed times
MaxSkip == 40             \* longest pause, in ticks, on top of a frame interval
MaxResumeTime == 60       \* pauses end within this many ticks of the start

ResumeFrame(skipped) ==
    /\ now + MaxDelta + skipped <= MaxResumeTime
    /\ Frame(MaxDelta + skipped)

NextSkip ==
    \/ Next
    \/ \E skipped \in 1..MaxSkip : ResumeFrame(skipped)

SpecSkip == Init /\ [][NextSkip]_vars

----------------------------------------------------------------------------
(* The shape generators.  A point is kept as the way it was produced:      *)
(* src names the branch that pushed it, ref the bar or vertex it was taken *)
(* from, jitter whether a random offset was added to a copied vertex.      *)
(* Math.random() is a choice drawn from the call's seed.                   *)

MaxPoints == 52       \* pointCount is 1..MaxPoints
MaxVerts == 7         \* the mesh has 0..MaxVerts vertices
MaxSeed == 2          \* seeds of the random choices are 0..MaxSeed

BarCount == 25            \* barCount of generateBarcodePositions
RandomBarCount == 40      \* barCount of the random-width barcode
BatteryCount == 3         \* batteryCount of generateBatteryPositions

Point(s, r, j) == [src |-> s, ref |-> r, jitter |-> j]

\* Math.floor(Math.random() * m), the j-th draw of a call
Pick(seed, j, m) == IF m = 0 THEN 0 ELSE (seed * (j + 1) + j) % m

RECURSIVE Repeat(_, _)
Repeat(x, n) == IF n <= 0 THEN << >> ELSE <<x>> \o Repeat(x, n - 1)

Slice(seq, n) == SubSeq(seq, 1, Min(n, Len(seq)))

\* generateScatterPositions: one push per i < pointCount
GenerateScatterPositions(pc) == [i \in 1..pc |-> Point("sphere", 0, FALSE)]

\* generateBarcodePositions, the bar loop: pointsPerBar pushes per bar
RECURSIVE BarLoop(_, _, _)
BarLoop(seq, barIndex, pointsPerBar) ==
    IF barIndex >= BarCount THEN seq
    ELSE BarLoop(seq \o Repeat(Point("bar", barIndex, FALSE), pointsPerBar),
                 barIndex + 1, pointsPerBar)

\* generateBarcodePositions, "fill remaining points": the bar of a leftover
\* point is (points pushed so far) % barCount
NoFill(seq, pc) == seq
RECURSIVE FillRemaining(_, _)
FillRemaining(seq, pc) ==
    IF Len(seq) < pc
    THEN FillRemaining(Append(seq, Point("bar", Len(seq) % BarCount, FALSE)), pc)
    ELSE seq

GenerateBarcodePositions(pc) ==
    Slice(FillRemaining(BarLoop(<< >>, 0, pc \div BarCount), pc), pc)

\* the random-width barcode: multiplier of bar b, drawn from [1,1,1,2,2,3,4]
BarMultiplier(seed, b) == <<1, 1, 1, 2, 2, 3, 4>>[Pick(seed, b, 7) + 1]

\* its bar loop: floor((pointCount / barCount) * (barWidth / barWidths[0]))
\* pushes per bar
RECURSIVE RandomBarLoop(_, _, _, _)
RandomBarLoop(seq, barIndex, pc, seed) ==
    IF barIndex >= RandomBarCount THEN seq
    ELSE RandomBarLoop(
            seq \o Repeat(Point("bar", barIndex, FALSE),
                          (pc * BarMultiplier(seed, barIndex))
                              \div (RandomBarCount * BarMultiplier(seed, 0))),
            barIndex + 1, pc, seed)

\* its fill loop: a leftover point goes to a randomly chosen bar
RECURSIVE RandomFill(_, _, _)
RandomFill(seq, pc, seed) ==
    IF Len(seq) < pc
    THEN RandomFill(Append(seq, Point("bar", Pick(seed, Len(seq), RandomBarCount),
                                      FALSE)), pc, seed)
    ELSE seq

GenerateRandomBarcodePositions(pc, seed) ==
    Slice(RandomFill(RandomBarLoop(<< >>, 0, pc, seed), pc, seed), pc)

\* generateBatteryPositions: per battery, a body loop that drops some of its
\* points, then terminal, bottom and label loops; then the fill loop
BatteryBody(b, n, seed) ==
    SelectSeq([i \in 1..n |-> Point("body", b, Pick(seed, b * n + i, 5) # 0)],
              LAMBDA pt : pt.jitter)

RECURSIVE BatteryLoop(_, _, _, _)
BatteryLoop(seq, b, perBattery, seed) ==
    IF b >= BatteryCount THEN seq
    ELSE BatteryLoop(
            seq \o BatteryBody(b, (perBattery * 65) \div 100, seed)
                \o Repeat(Point("terminal", b, FALSE), (perBattery * 20) \div 100)
                \o Repeat(Point("bottom", b, FALSE), (perBattery * 10) \div 100)
                \o Repeat(Point("label", b, FALSE), (perBattery * 5) \div 100),
            b + 1, perBattery, seed)

RECURSIVE BatteryFill(_, _, _)
BatteryFill(seq, pc, seed) ==
    IF Len(seq) < pc
    THEN BatteryFill(Append(seq, Point("body", Pick(seed, Len(seq), BatteryCount),
                                       FALSE)), pc, seed)
    ELSE seq

GenerateBatteryPositions(pc, seed) ==
    Slice(BatteryFill(BatteryLoop(<< >>, 0, pc \div BatteryCount, seed), pc, seed), pc)

\* extractModelPositions (wine bottle): fallback cube, stride sample, or
\* repeat with jitter
ExtractEveryStride(verts, pc) ==
    IF verts = 0 THEN [i \in 1..pc |-> Point("cube", 0, TRUE)]
    ELSE IF verts >= pc
    THEN [i \in 1..((verts + (verts \div pc) - 1) \div (verts \div pc)) |->
            Point("vertex", Min((i - 1) * (verts \div pc), verts - 1), FALSE)]
    ELSE [i \in 1..pc |-> Point("vertex", (i - 1) % verts, (i - 1) >= verts)]
ExtractModelPositions(verts, pc) ==
    IF verts = 0 THEN [i \in 1..pc |-> Point("cube", 0, TRUE)]
    ELSE IF verts >= pc
    THEN [i \in 1..pc |->
            Point("vertex", Min((i - 1) * (verts \div pc), verts - 1), FALSE)]
    ELSE [i \in 1..pc |-> Point("vertex", (i - 1) % verts, (i - 1) >= verts)]

\* extractBatteryPositions (GLTF battery): every step-th vertex is collected,
\* step = max(1, floor(count / (pointCount * 1.5))); no vertex: a zeroed
\* Float32Array; else vertex i % allVerts.length, no jitter
BatteryStep(verts, pc) == Max(1, (2 * verts) \div (3 * pc))
BatteryCollected(verts, pc) ==
    (verts + BatteryStep(verts, pc) - 1) \div BatteryStep(verts, pc)
ExtractBatteryPositions(verts, pc) ==
    IF BatteryCollected(verts, pc) = 0 THEN [i \in 1..pc |-> Point("zero", 0, FALSE)]
    ELSE [i \in 1..pc |->
            Point("vertex",
                  ((i - 1) % BatteryCollected(verts, pc)) * BatteryStep(verts, pc),
                  FALSE)]

\* useTShirtPositions: count points, each a randomly chosen vertex; with no
\* vertex positions[0] is undefined and the Float32Array holds NaN
UseTShirtPositions(verts, pc, seed) ==
    [i \in 1..pc |-> IF verts = 0 THEN Point("nan", 0, FALSE)
                     ELSE Point("vertex", Pick(seed, i - 1, verts), FALSE)]

MeshGenerators == {"extractModelPositions", "extractBatteryPositions",
                   "useTShirtPositions"}
BarcodeGenerators == {"generateBarcodePositions", "generateRandomBarcodePositions"}

InitGen ==
    /\ Init!1 /\ Init!2 /\ Init!3 /\ Init!4 /\ Init!5 /\ Init!6 /\ Init!7
    /\ Init!8 /\ Init!9 /\ Init!10 /\ Init!11 /\ Init!12 /\ Init!14 /\ Init!15
    /\ \E pc \in 1..MaxPoints, v \in 0..MaxVerts, sd \in 0..MaxSeed :
          gen = [kind |-> "input", pointCount |-> pc, verts |-> v, seed |-> sd,
                 out |-> << >>]

Generated(name, out) ==
    /\ gen.kind = "input"
    /\ gen' = [gen EXCEPT !.kind = name, !.out = out]
    /\ UNCHANGED <<heroVars, step, ui>>

CallScatter == Generated("generateScatterPositions",
                         GenerateScatterPositions(gen.pointCount))
CallBarcode == Generated("generateBarcodePositions",
                         GenerateBarcodePositions(gen.pointCount))
CallRandomBarcode == Generated("generateRandomBarcodePositions",
                         GenerateRandomBarcodePositions(gen.pointCount, gen.seed))
CallBattery == Generated("generateBatteryPositions",
                         GenerateBatteryPositions(gen.pointCount, gen.seed))
CallExtractModel == Generated("extractModelPositions",
                         ExtractModelPositions(gen.verts, gen.pointCount))
CallExtractBattery == Generated("extractBatteryPositions",
                         ExtractBatteryPositions(gen.verts, gen.pointCount))
CallTShirt == Generated("useTShirtPositions",
                         UseTShirtPositions(gen.verts, gen.pointCount, gen.seed))

NextGen ==
    \/ CallScatter
    \/ CallBarcode
    \/ CallRandomBarcode
    \/ CallBattery
    \/ CallExtractModel
    \/ CallExtractBattery
    \/ CallTShirt

SpecGen == InitGen /\ [][NextGen]_vars

----------------------------------------------------------------------------
(* The interpolation and rotation tail of the frame callback, on a buffer  *)
(* of two particles.  Coordinates are integers in units of 1/PosUnit, so   *)
(* that the lerp factor delta * 8 = 4 * delta / 5, the product scale       *)
(* 0.85 = 17/20 and the rotation are exact.  cos and sin of the rotation   *)
(* angle are the exact rotation ((4 + 3i) / 5)^a of a units a: a rotation  *)
(* group of a generic angle, in which rotations compose as in the code.    *)

MaxSteps == 2         \* interpolation frames run before the product phases
MaxAngle == 2         \* rotating frames are run while rotationAngle <= MaxAngle

ScaleNum == 17            \* productScale = 0.85 = 17/20
ScaleDen == 20
OffsetNum == 3            \* productYOffset = -0.3 = -3/10
OffsetDen == 10
SpeedNum == 4             \* delta * 8 with delta in ticks of 0.1 s: 4 * delta / 5
SpeedDen == 5

PosUnit == ScaleDen * SpeedDen ^ (MaxAngle + 1)

Vec(a, b, c) == [x |-> a * PosUnit, y |-> b * PosUnit, z |-> c * PosUnit]

\* the position sets of the buffer's two particles
ShapeOf(name) ==
    CASE name = "scatter" -> <<Vec(2, 1, 0 - 2), Vec(0 - 1, 0 - 2, 1)>>
      [] name = "barcode" -> <<Vec(0 - 1, 1, 0), Vec(1, 0 - 1, 0)>>
      [] name = "product0" -> <<Vec(1, 2, 0), Vec(0, 0 - 1, 1)>>
      [] name = "product1" -> <<Vec(1, 0, 1), Vec(0 - 2, 1, 1)>>
      [] OTHER -> <<Vec(1, 1, 1)>>     \* sampled for another point count

StepShapes == {"barcode", "product0", "product1", "product2"}

\* "Safety check": a target of another length than the buffer is replaced
\* by the scatter shape
NoSafetyCheck(tgt, len) == tgt
SafeTarget(tgt, len) == IF Len(tgt) # len THEN ShapeOf("scatter") ELSE tgt

\* THREE.MathUtils.lerp(x, y, t) with t = num/den
Lerp(x, y, num, den) == x + ((y - x) * num) \div den

\* cos and sin of a angle units, as numerators over 5^a
RECURSIVE CosNum(_)
RECURSIVE SinNum(_)
CosNum(a) == IF a = 0 THEN 1 ELSE 4 * CosNum(a - 1) - 3 * SinNum(a - 1)
SinNum(a) == IF a = 0 THEN 0 ELSE 3 * CosNum(a - 1) + 4 * SinNum(a - 1)
TrigDen(a) == SpeedDen ^ a

\* targetValue of the interpolation loop for the shape v the frame
\* interpolates toward (in the intro: the switch's target or its per-bar
\* blend with scatter and barcode): scale and vertical offset are applied
\* in the product phases only
TargetValue(v, ph) ==
    IF ph \in {"preload", "cycling"}
    THEN [x |-> (v.x * ScaleNum) \div ScaleDen,
          y |-> (v.y * ScaleNum) \div ScaleDen - (OffsetNum * PosUnit) \div OffsetDen,
          z |-> (v.z * ScaleNum) \div ScaleDen]
    ELSE v

\* the interpolation loop, progress = 1: every axis approaches its target
\* value by the factor localProgress * delta * 8 = delta * 8
Interpolate(p, tv, delta) ==
    [x |-> Lerp(p.x, tv.x, SpeedNum * delta, SpeedDen),
     y |-> Lerp(p.y, tv.y, SpeedNum * delta, SpeedDen),
     z |-> Lerp(p.z, tv.z, SpeedNum * delta, SpeedDen)]

\* the vector the rotation block rotates: the scaled target, not the
\* position the interpolation loop has just written
RotateCurrent(tgt, cur) == cur
RotationSource(tgt, cur) == tgt

\* the rotation block: around the vertical axis by angle a
RotateY(v, a) ==
    [x |-> (v.x * CosNum(a) - v.z * SinNum(a)) \div TrigDen(a),
     y |-> v.y,
     z |-> (v.x * SinNum(a) + v.z * CosNum(a)) \div TrigDen(a)]

PhaseRank(ph) == CASE ph = "intro" -> 0 [] ph = "preload" -> 1 [] OTHER -> 2

InitStep ==
    /\ Init!1 /\ Init!2 /\ Init!3 /\ Init!4 /\ Init!5 /\ Init!6 /\ Init!7
    /\ Init!8 /\ Init!9 /\ Init!10 /\ Init!11 /\ Init!12 /\ Init!13 /\ Init!15
    /\ \E first \in {"scatter", "barcode", "product1"} :
          step = [kind |-> "run", pos |-> ShapeOf(first), prev |-> ShapeOf(first),
                  tv |-> ShapeOf(first), shape |-> first, ph |-> "intro",
                  rotated |-> FALSE, frames |-> 0, delta |-> 0]

\* one frame of the tail: the switch has chosen the target shape and
\* shouldRotate for phase ph; delta is the frame's delta in ticks
StepFrame(ph, shape, delta) ==
    /\ step.kind = "run"
    /\ PhaseRank(ph) >= PhaseRank(step.ph)
    /\ LET sr == ShouldRotate(ph, 0, 0)
           rot == RotationEnabled(sr, ph)
           tgt == SafeTarget(ShapeOf(shape), Len(step.pos))
           tv == [i \in 1..Len(tgt) |-> TargetValue(tgt[i], ph)]
           moved == [i \in 1..Len(tgt) |-> Interpolate(step.pos[i], tv[i], delta)]
           angle == rotationAngle + delta
       IN  /\ IF rot THEN angle <= MaxAngle ELSE step.frames < MaxSteps
           /\ rotationAngle' = IF rot THEN angle
                               ELSE IF rotationAngle # 0 /\ ~ sr THEN 0
                               ELSE rotationAngle
           /\ step' = [kind |-> "run",
                       pos |-> IF rot
                               THEN [i \in 1..Len(tgt) |->
                                       RotateY(RotationSource(tv[i], moved[i]), angle)]
                               ELSE moved,
                       prev |-> step.pos,
                       tv |-> tv, shape |-> shape, ph |-> ph, rotated |-> rot,
                       frames |-> IF rot THEN step.frames ELSE step.frames + 1,
                       delta |-> delta]
    /\ UNCHANGED <<now, phase, currentProductIndex, pendPhase, pendIdx, effectPending,
                   lag, phaseStartTime, productStartTime, events, target, gen, ui>>

NextStep ==
    \E ph \in Phases, shape \in StepShapes, delta \in 1..MaxDelta :
        StepFrame(ph, shape, delta)

SpecStep == InitStep /\ [][NextStep]_vars

----------------------------------------------------------------------------
(* The stagger of the interpolation loop: localProgress of every particle  *)
(* of a buffer, for a phase progress given as a rational.                  *)

MaxParticles == 8     \* pointCount of the staggered buffer is 1..MaxParticles
ProgressDen == 5      \* phase progress is n / ProgressDen, n in -1..ProgressDen + 1

StaggerNum == 3           \* stagger = (pointIndex / pointCount) * 0.3 = 3 i / (10 pc)
StaggerDen == 10

\* stagger of particle pointIndex, as a numerator over StaggerDen * pc
StaggerReversed(pointIndex, pc) == StaggerNum * (pc - 1 - pointIndex)
Stagger(pointIndex, pc) == StaggerNum * pointIndex

\* Math.max(0, Math.min(1, (progress - stagger) / (1 - stagger))) for
\* progress = pn / pd, as a rational [num, den] with den > 0
LocalProgress(pn, pd, pointIndex, pc) ==
    LET sn == Stagger(pointIndex, pc)
        sd == StaggerDen * pc
        num == pn * sd - sn * pd         \* (progress - stagger) over pd * sd
        den == pd * (sd - sn)            \* (1 - stagger) over pd * sd
    IN  IF num <= 0 THEN [num |-> 0, den |-> 1]
        ELSE IF num >= den THEN [num |-> 1, den |-> 1]
        ELSE [num |-> num, den |-> den]

InitStagger ==
    /\ Init!1 /\ Init!2 /\ Init!3 /\ Init!4 /\ Init!5 /\ Init!6 /\ Init!7
    /\ Init!8 /\ Init!9 /\ Init!10 /\ Init!11 /\ Init!12 /\ Init!13 /\ Init!15
    /\ \E pc \in 1..MaxParticles, pn \in (0 - 1)..(ProgressDen + 1) :
          step = [kind |-> "progress", pointCount |-> pc, pn |-> pn,
                  pd |-> ProgressDen, local |-> << >>]

\* one pass of the interpolation loop over the buffer
StaggerPass ==
    /\ step.kind = "progress"
    /\ step' = [step EXCEPT
                  !.kind = "staggered",
                  !.local = [i \in 1..step.pointCount |->
                               LocalProgress(step.pn, step.pd, i - 1, step.pointCount)]]
    /\ UNCHANGED <<heroVars, gen, ui>>

NextStagger == StaggerPass

SpecStagger == InitStagger /\ [][NextStagger]_vars

----------------------------------------------------------------------------
(* ScanCheckTrust: the click-driven word sequence.  Time is counted in     *)
(* ticks of 20 ms.  currentIndex = -1 is the waiting state ("Click to      *)
(* start"): it has no entry in SEQUENCE and the timer effect arms no timer *)
(* for it.  shown counts the ticks since the index was last set.           *)

MaxUiTime == 280      \* the component is run for MaxUiTime ticks
MaxPlays == 2         \* clicks handled

\* SEQUENCE[i].duration, in ticks
SEQUENCE == <<30, 50, 4, 50, 4, 50, 4, 75>>

NoTimer == 0 - 1

\* the duration of the phase at idx: an index outside SEQUENCE has none
FirstDuration(idx) == SEQUENCE[1]
DurationOf(idx) == IF idx >= 0 /\ idx < Len(SEQUENCE) THEN SEQUENCE[idx + 1] ELSE 0

\* the early returns of the timer effect: no timer while waiting
TimerArmedAlways(idx) == TRUE
TimerArmed(idx) == ~ (idx < 0) /\ ~ (idx >= Len(SEQUENCE))

\* the timer effect, run after a commit that changed currentIndex or
\* playKey: the previous timer is cleared by the cleanup
TimerEffect(idx) == IF TimerArmed(idx) THEN DurationOf(idx) ELSE NoTimer

InitSct ==
    /\ Init!1 /\ Init!2 /\ Init!3 /\ Init!4 /\ Init!5 /\ Init!6 /\ Init!7
    /\ Init!8 /\ Init!9 /\ Init!10 /\ Init!11 /\ Init!12 /\ Init!13 /\ Init!14
    /\ ui = [kind |-> "ScanCheckTrust", currentIndex |-> 0 - 1, playKey |-> 0,
             timer |-> TimerEffect(0 - 1), clock |-> 0, clicks |-> 0,
             shown |-> 0]

\* one tick of time passes; an armed timer comes one tick closer
SctTick ==
    /\ ui.kind = "ScanCheckTrust"
    /\ ui.clock < MaxUiTime
    /\ ui.timer # 0
    /\ ui' = [ui EXCEPT !.clock = @ + 1, !.shown = @ + 1,
                        !.timer = IF @ = NoTimer THEN NoTimer ELSE @ - 1]
    /\ UNCHANGED <<heroVars, gen, step>>

\* the setTimeout callback: advance unless at the last item; the commit of
\* a changed index re-runs the timer effect
SctTimeout ==
    /\ ui.kind = "ScanCheckTrust"
    /\ ui.timer = 0
    /\ LET idx == IF ui.currentIndex < Len(SEQUENCE) - 1
                  THEN ui.currentIndex + 1 ELSE ui.currentIndex
       IN  ui' = [ui EXCEPT !.currentIndex = idx,
                            !.shown = IF idx # ui.currentIndex THEN 0 ELSE @,
                            !.timer = IF idx # ui.currentIndex
                                      THEN TimerEffect(idx) ELSE NoTimer]
    /\ UNCHANGED <<heroVars, gen, step>>

\* handleStart, the click handler: setPlayKey(k => k + 1), setCurrentIndex(0)
HandleStart ==
    /\ ui.kind = "ScanCheckTrust"
    /\ ui.clicks < MaxPlays
    /\ ui' = [ui EXCEPT !.playKey = @ + 1, !.currentIndex = 0, !.shown = 0,
                        !.timer = TimerEffect(0), !.clicks = @ + 1]
    /\ UNCHANGED <<heroVars, gen, step>>

NextSct ==
    \/ SctTick
    \/ SctTimeout
    \/ HandleStart

SpecSct == InitSct /\ [][NextSct]_vars

----------------------------------------------------------------------------
(* PassportParticlePhoto: the small particle view of the product tile.     *)
(* Its position buffer is kept as the shape it shows and the angle that    *)
(* shape is turned by.  A shape is <<productIndex, loaded>>: the positions *)
(* sampled for the product before and after its model has loaded.          *)

MaxPassportFrames == 4    \* frames run per mounted view

NoShape == <<NumProducts, FALSE>>

\* Math.min(delta, 0.1), in ticks
CappedDelta(delta) == Min(delta, 1)

\* "Also update the geometry positions immediately": the effect copies the
\* base positions into the buffer
EffectKeepsBuffer(base, buffer) == buffer
EffectWrite(base, buffer) == [shape |-> base, angle |-> 0]

InitPassport ==
    /\ Init!1 /\ Init!2 /\ Init!3 /\ Init!4 /\ Init!5 /\ Init!6 /\ Init!7
    /\ Init!8 /\ Init!9 /\ Init!10 /\ Init!11 /\ Init!12 /\ Init!13 /\ Init!14
    /\ \E pi \in 0..(NumProducts - 1) :
          ui = [kind |-> "PassportParticlePhoto", productIndex |-> pi,
                loaded |-> FALSE, base |-> NoShape, angle |-> 0,
                buffer |-> [shape |-> <<pi, FALSE>>, angle |-> 0],
                effectDue |-> TRUE, frames |-> 0, effects |-> 0, renders |-> 0]

\* the product's model finishes loading: transformedPositions is recomputed
\* and the view re-renders; the geometry keeps its buffer until the effect
\* updates it
PassportModelLoaded ==
    /\ ui.kind = "PassportParticlePhoto"
    /\ ~ ui.loaded
    /\ ui' = [ui EXCEPT !.loaded = TRUE, !.effectDue = TRUE, !.renders = @ + 1]
    /\ UNCHANGED <<heroVars, gen, step>>

\* useEffect on [transformedPositions]: new base copy, rotation reset, and
\* the buffer overwritten outside the frame callback
PassportEffect ==
    /\ ui.kind = "PassportParticlePhoto"
    /\ ui.effectDue
    /\ LET base == <<ui.productIndex, ui.loaded>>
       IN  ui' = [ui EXCEPT !.base = base, !.angle = 0,
                            !.buffer = EffectWrite(base, ui.buffer),
                            !.effectDue = FALSE, !.effects = @ + 1]
    /\ UNCHANGED <<heroVars, gen, step>>

\* useFrame callback: returns early without base positions, else turns the
\* base positions by the accumulated angle into the buffer
PassportFrame(delta) ==
    /\ ui.kind = "PassportParticlePhoto"
    /\ ui.frames < MaxPassportFrames
    /\ IF ui.base = NoShape
       THEN ui' = [ui EXCEPT !.frames = @ + 1]
       ELSE LET dir == IF ui.productIndex = 2 THEN 0 - 1 ELSE 1
                a == ui.angle + CappedDelta(delta) * dir
            IN  ui' = [ui EXCEPT !.frames = @ + 1, !.angle = a,
                                 !.buffer = [shape |-> ui.base, angle |-> a]]
    /\ UNCHANGED <<heroVars, gen, step>>

NextPassport ==
    \/ PassportModelLoaded
    \/ PassportEffect
    \/ \E delta \in 1..MaxDelta : PassportFrame(delta)

SpecPassport == InitPassport /\ [][NextPassport]_vars

----------------------------------------------------------------------------
(* Preloader: the simulated loading bar.  Time is counted in ticks of      *)
(* 100 ms; the 16 ms interval is observed once per tick.                   *)

MinLoadTime == 8          \* duration = 800 + Math.random() * 400, in ticks
MaxLoadTime == 12
CompleteDelay == 2        \* setTimeout(() => onComplete(), 200)

\* the cleanup of the Preloader effect clears the interval only; the
\* completion timeout that was already scheduled stays scheduled
PreloaderCleanup(timer) == timer

InitPreloader ==
    /\ Init!1 /\ Init!2 /\ Init!3 /\ Init!4 /\ Init!5 /\ Init!6 /\ Init!7
    /\ Init!8 /\ Init!9 /\ Init!10 /\ Init!11 /\ Init!12 /\ Init!13 /\ Init!14
    /\ \E d \in MinLoadTime..MaxLoadTime :
          ui = [kind |-> "Preloader", mounted |-> TRUE, duration |-> d,
                elapsed |-> 0, interval |-> TRUE, isComplete |-> FALSE,
                timer |-> NoTimer, completed |-> 0, stale |-> 0]

\* the setInterval callback, one tick later: progress = min(elapsed /
\* duration, 1); at 1 the interval is cleared and onComplete is scheduled
PreloaderInterval ==
    /\ ui.kind = "Preloader"
    /\ ui.interval
    /\ LET e == ui.elapsed + 1
           done == Min(e, ui.duration) = ui.duration
       IN  ui' = [ui EXCEPT !.elapsed = e,
                            !.interval = ~ done,
                            !.isComplete = done,
                            !.timer = IF done THEN CompleteDelay ELSE @]
    /\ UNCHANGED <<heroVars, gen, step>>

\* a tick passes while the completion timeout is pending
PreloaderWait ==
    /\ ui.kind = "Preloader"
    /\ ~ ui.interval
    /\ ui.timer > 0
    /\ ui' = [ui EXCEPT !.elapsed = @ + 1, !.timer = @ - 1]
    /\ UNCHANGED <<heroVars, gen, step>>

\* the completion timeout fires: onComplete()
PreloaderTimeout ==
    /\ ui.kind = "Preloader"
    /\ ui.timer = 0
    /\ ui' = [ui EXCEPT !.timer = NoTimer,
                        !.completed = @ + 1,
                        !.stale = IF ui.mounted THEN @ ELSE @ + 1]
    /\ UNCHANGED <<heroVars, gen, step>>

\* the Preloader is unmounted: the effect's cleanup runs
PreloaderUnmount ==
    /\ ui.kind = "Preloader"
    /\ ui.mounted
    /\ ui' = [ui EXCEPT !.mounted = FALSE, !.interval = FALSE,
                        !.timer = PreloaderCleanup(@)]
    /\ UNCHANGED <<heroVars, gen, step>>

NextPreloader ==
    \/ PreloaderInterval
    \/ PreloaderWait
    \/ PreloaderTimeout
    \/ PreloaderUnmount

SpecPreloader == InitPreloader /\ [][NextPreloader]_vars

----------------------------------------------------------------------------
(* Two engines of the second snapshot (unnamed/part_001) mounted side by   *)
(* side, a hero and a preview.  barcodeBarIndices is assigned without a    *)
(* declaration: a module built in sloppy mode makes it one property of the *)
(* global object that every engine shares, a module built in strict mode   *)
(* throws a ReferenceError on the assignment.  Which of the two the build  *)
(* produces is chosen in the initial state.                                *)

MaxPointsPerBar == 2      \* point counts are ExplodeBarCount * 1..MaxPointsPerBar
MaxEngineFrames == 2      \* frames an engine runs in its exploding phase

ExplodeBarCount == 30     \* const barCount = 30

Engines == {"hero", "preview"}
NoEngine == "none"
PointCounts == {ExplodeBarCount * k : k \in 1..MaxPointsPerBar}

\* JavaScript numbers that are no integers
NaN == 0 - 1
Infinity == 0 - 2

\* Math.floor(a / b) for integers a >= 0, b >= 0
FloorDiv(a, b) ==
    IF b = 0 THEN (IF a = 0 THEN NaN ELSE Infinity) ELSE a \div b

\* Math.min(v, m) for an integer m
MathMin(v, m) ==
    IF v = NaN THEN NaN ELSE IF v = Infinity THEN m ELSE Min(v, m)

\* the value an element of a Uint8Array holds after v is assigned to it
ToUint8(v) == IF v \in {NaN, Infinity} THEN 0 ELSE v % 256

\* barcodeBarIndices.push(Math.floor(i / pointsPerBar)) for i < pointCount
BarIndices(pointCount) ==
    LET pointsPerBar == pointCount \div ExplodeBarCount
    IN  [i \in 1..pointCount |-> FloorDiv(i - 1, pointsPerBar)]

\* barcodeBarIndices[i] || 0
ReadBarIndex(indices, i) == IF i + 1 <= Len(indices) THEN indices[i + 1] ELSE 0

InitEngines ==
    /\ Init!1 /\ Init!2 /\ Init!3 /\ Init!4 /\ Init!5 /\ Init!6 /\ Init!7
    /\ Init!8 /\ Init!9 /\ Init!10 /\ Init!11 /\ Init!12 /\ Init!13 /\ Init!14
    /\ \E strict \in BOOLEAN :
          ui = [kind |-> "Engines", strict |-> strict,
                barcodeBarIndices |-> <<>>, writer |-> NoEngine,
                status |-> [e \in Engines |-> "unmounted"],
                pointCount |-> [e \in Engines |-> 0],
                seen |-> [e \in Engines |-> <<>>],
                readFrom |-> [e \in Engines |-> NoEngine],
                frames |-> [e \in Engines |-> 0]]

\* the first render of an engine: the barcodePositions memo assigns
\* barcodeBarIndices and fills it for the engine's own pointCount
EngineMount(e, pc) ==
    /\ ui.kind = "Engines"
    /\ ui.status[e] = "unmounted"
    /\ ui' = IF ui.strict
             THEN [ui EXCEPT !.status[e] = "crashed"]
             ELSE [ui EXCEPT !.status[e] = "mounted",
                             !.pointCount[e] = pc,
                             !.barcodeBarIndices = BarIndices(pc),
                             !.writer = e]
    /\ UNCHANGED <<heroVars, gen, step>>

\* a frame of the exploding phase: the bar of every particle of the engine
\* is read from barcodeBarIndices
EngineExplodeFrame(e) ==
    /\ ui.kind = "Engines"
    /\ ui.status[e] = "mounted"
    /\ ui.frames[e] < MaxEngineFrames
    /\ ui' = [ui EXCEPT
                !.seen[e] = [i \in 1..ui.pointCount[e] |->
                                ReadBarIndex(ui.barcodeBarIndices, i - 1)],
                !.readFrom[e] = ui.writer,
                !.frames[e] = @ + 1]
    /\ UNCHANGED <<heroVars, gen, step>>

\* an engine is unmounted; the global it assigned stays as it is
EngineUnmount(e) ==
    /\ ui.kind = "Engines"
    /\ ui.status[e] = "mounted"
    /\ ui' = [ui EXCEPT !.status[e] = "unmounted",
                        !.seen[e] = <<>>,
                        !.readFrom[e] = NoEngine]
    /\ UNCHANGED <<heroVars, gen, step>>

NextEngines ==
    \/ \E e \in Engines, pc \in PointCounts : EngineMount(e, pc)
    \/ \E e \in Engines : EngineExplodeFrame(e)
    \/ \E e \in Engines : EngineUnmount(e)

SpecEngines == InitEngines /\ [][NextEngines]_vars

----------------------------------------------------------------------------
(* Vertical placement of a product vertex: the y a generator emits for a   *)
(* vertex of its shape, and the target y the interpolator computes from it *)
(* in the product phases.  The input y is the vertex in the shape's own    *)
(* origin-centred frame, after the generator's scale and rotation.         *)
(* Heights are integers in units of 1 / PlaceDen.                          *)

MaxY == 15                \* input heights are -MaxY..MaxY tenths

WineBottleYOffset == 13   \* const yOffset = -1.3, in tenths below the origin
BatteryYOffset == 6       \* const yOffset = -0.6

PlaceDen == OffsetDen * ScaleDen
Tenth == PlaceDen \div 10

ProductGenerators ==
    {"useWineBottlePositions", "extractBatteryPositions",
     "generateBatteryPositions", "useTShirtPositions"}

\* the vertical offset the generator adds to every vertex it emits
GeneratorYOffset(generator) ==
    CASE generator = "useWineBottlePositions" -> 0 - WineBottleYOffset * Tenth
      [] generator = "extractBatteryPositions" -> 0 - BatteryYOffset * Tenth
      [] OTHER -> 0

GeneratorY(generator, y) == y + GeneratorYOffset(generator)

\* targetValue *= productScale; if (j === 1) targetValue += productYOffset
TargetY(v) == (v * ScaleNum) \div ScaleDen - (OffsetNum * PlaceDen) \div OffsetDen

InitPlace ==
    /\ Init!1 /\ Init!2 /\ Init!3 /\ Init!4 /\ Init!5 /\ Init!6 /\ Init!7
    /\ Init!8 /\ Init!9 /\ Init!10 /\ Init!11 /\ Init!12 /\ Init!14 /\ Init!15
    /\ \E g \in ProductGenerators, y \in (0 - MaxY)..MaxY :
          gen = [kind |-> "place", generator |-> g, y |-> y * Tenth,
                 stage |-> "mesh", out |-> 0, placed |-> 0]

\* the generator emits the vertex
EmitVertex ==
    /\ gen.kind = "place"
    /\ gen.stage = "mesh"
    /\ gen' = [gen EXCEPT !.stage = "emitted",
                          !.out = GeneratorY(gen.generator, gen.y)]
    /\ UNCHANGED <<heroVars, step, ui>>

\* a frame of a product phase takes the emitted vertex as its target
PlaceVertex ==
    /\ gen.kind = "place"
    /\ gen.stage = "emitted"
    /\ gen' = [gen EXCEPT !.stage = "placed", !.placed = TargetY(gen.out)]
    /\ UNCHANGED <<heroVars, step, ui>>

NextPlace ==
    \/ EmitVertex
    \/ PlaceVertex

SpecPlace == InitPlace /\ [][NextPlace]_vars

----------------------------------------------------------------------------
(* The engine stepped at a fixed frame rate through a timeline of a        *)
(* scatter phase, a barcode phase and a last phase that is never left, as  *)
(* the frame callback of unnamed/part_000 runs its phases: the expiry test *)
(* `elapsed > timeline[phase]`, setPhase, the commit and the [phase]       *)
(* effect that restarts the phase clock, and the stagger and lerp of the   *)
(* interpolation loop at progress = 1.  Time is counted in frames.  The    *)
(* first and the last particle of a buffer of TimelinePoints are followed  *)
(* along one axis, in units of 1 / DistUnit.                               *)

FramesPerSecond == 60     \* the frame callback runs every 1 / FramesPerSecond s
MaxFrames == 250          \* frames run
MaxDist == 10             \* the scatter position is MaxDist from the barcode position
TimelinePoints == 1000    \* pointCount of the followed buffer

LerpRate == 8             \* localProgress * delta * 8

DistUnit == 1000000
timeline == <<2 * FramesPerSecond, 2 * FramesPerSecond, 0>>
LastPhase == Len(timeline)
Followed == <<0, TimelinePoints - 1>>

\* the position a phase moves a particle to: scatter, barcode, product
PhaseTargetPos(ph) ==
    CASE ph = 1 -> MaxDist * DistUnit
      [] ph = 2 -> 0
      [] OTHER -> (MaxDist * DistUnit) \div 2

\* progress = 1 in the branch of every phase
PhaseProgress(ph) == 1

InitTimeline ==
    /\ Init!1 /\ Init!2 /\ Init!3 /\ Init!4 /\ Init!5 /\ Init!6 /\ Init!7
    /\ Init!8 /\ Init!9 /\ Init!10 /\ Init!11 /\ Init!12 /\ Init!13 /\ Init!14
    /\ ui = [kind |-> "Timeline", frame |-> 0, phase |-> 1, pend |-> 0,
             effectPending |-> FALSE, lag |-> 0, phaseStart |-> 0, fired |-> 0,
             pos |-> [k \in 1..Len(Followed) |-> PhaseTargetPos(1)]]

TimelinePending == ui.pend # 0 \/ ui.effectPending

\* one frame: the expiry test of the phase the closure sees, then the
\* interpolation of every particle toward that phase's target
TimelineFrame ==
    /\ ui.kind = "Timeline"
    /\ ui.frame < MaxFrames
    /\ TimelinePending => ui.lag < MaxLagFrames
    /\ LET t == ui.frame + 1
           elapsed == t - ui.phaseStart
           fire == /\ ui.phase < LastPhase
                   /\ Expired(elapsed, timeline[ui.phase])
           local(k) == LocalProgress(PhaseProgress(ui.phase), 1, Followed[k],
                                     TimelinePoints)
       IN  ui' = [ui EXCEPT
                    !.frame = t,
                    !.pend = IF fire THEN ui.phase + 1 ELSE @,
                    !.fired = IF fire THEN @ + 1 ELSE @,
                    !.lag = IF TimelinePending THEN @ + 1 ELSE 0,
                    !.pos = [k \in 1..Len(Followed) |->
                               Lerp(ui.pos[k], PhaseTargetPos(ui.phase),
                                    local(k).num * LerpRate,
                                    local(k).den * FramesPerSecond)]]
    /\ UNCHANGED <<heroVars, gen, step>>

\* React commits the queued phase; a changed phase schedules the effect
TimelineCommit ==
    /\ ui.kind = "Timeline"
    /\ ui.pend # 0
    /\ ui' = [ui EXCEPT !.phase = ui.pend,
                        !.pend = 0,
                        !.effectPending = (@ \/ ui.pend # ui.phase)]
    /\ UNCHANGED <<heroVars, gen, step>>

\* useEffect on [phase]: phaseStartTime.current = clock.elapsedTime
TimelineEffect ==
    /\ ui.kind = "Timeline"
    /\ ui.effectPending
    /\ ui' = [ui EXCEPT !.effectPending = FALSE,
                        !.phaseStart = ui.frame,
                        !.lag = IF ui.pend # 0 THEN @ ELSE 0]
    /\ UNCHANGED <<heroVars, gen, step>>

NextTimeline ==
    \/ TimelineFrame
    \/ TimelineCommit
    \/ TimelineEffect

SpecTimeline == InitTimeline /\ [][NextTimeline]_vars

----------------------------------------------------------------------------
(* A mesh-sampled generator hook and the model it samples.  useGLTF reads  *)
(* the model through React Suspense: while the load is pending the call    *)
(* throws the pending promise, after a failed load it throws the error,    *)
(* and only after the load it returns the scene.                           *)

MaxLoadPoints == 4        \* pointCount of the hook is 1..MaxLoadPoints
MaxRenders == 3           \* renders of the component that calls the hook

MeshHooks == {"useWineBottlePositions", "extractBatteryPositions",
              "useTShirtPositions"}

\* what the generator samples from the loaded scene
SampleScene(hook, verts, pc) ==
    CASE hook = "useWineBottlePositions" -> ExtractModelPositions(verts, pc)
      [] hook = "extractBatteryPositions" -> ExtractBatteryPositions(verts, pc)
      [] OTHER -> UseTShirtPositions(verts, pc, 0)

\* const { scene } = useGLTF(path), then the sampling
HookOutcome(hook, asset, verts, pc) ==
    CASE asset = "pending" -> [result |-> "suspended", out |-> << >>]
      [] asset = "failed" -> [result |-> "threw", out |-> << >>]
      [] OTHER -> [result |-> "returned", out |-> SampleScene(hook, verts, pc)]

InitLoad ==
    /\ Init!1 /\ Init!2 /\ Init!3 /\ Init!4 /\ Init!5 /\ Init!6 /\ Init!7
    /\ Init!8 /\ Init!9 /\ Init!10 /\ Init!11 /\ Init!12 /\ Init!13 /\ Init!14
    /\ \E h \in MeshHooks, pc \in 1..MaxLoadPoints :
          ui = [kind |-> "Load", hook |-> h, pointCount |-> pc,
                asset |-> "pending", verts |-> 0, renders |-> 0,
                seen |-> "none", result |-> "none", out |-> << >>]

\* the component renders and calls the hook
RenderHook ==
    /\ ui.kind = "Load"
    /\ ui.renders < MaxRenders
    /\ LET o == HookOutcome(ui.hook, ui.asset, ui.verts, ui.pointCount)
       IN  ui' = [ui EXCEPT !.renders = @ + 1, !.seen = ui.asset,
                            !.result = o.result, !.out = o.out]
    /\ UNCHANGED <<heroVars, gen, step>>

\* the asynchronous load completes with a scene of verts vertices
AssetLoaded(verts) ==
    /\ ui.kind = "Load"
    /\ ui.asset = "pending"
    /\ ui' = [ui EXCEPT !.asset = "loaded", !.verts = verts]
    /\ UNCHANGED <<heroVars, gen, step>>

\* the asynchronous load fails
AssetFailed ==
    /\ ui.kind = "Load"
    /\ ui.asset = "pending"
    /\ ui' = [ui EXCEPT !.asset = "failed"]
    /\ UNCHANGED <<heroVars, gen, step>>

NextLoad ==
    \/ RenderHook
    \/ \E verts \in 0..MaxVerts : AssetLoaded(verts)
    \/ AssetFailed

SpecLoad == InitLoad /\ [][NextLoad]_vars

----------------------------------------------------------------------------
(* The transition callbacks of the cycling branch and the isTransitioning  *)
(* state HomepageHero keeps from them, over the slots of successive        *)
(* products.  Time is counted in fine ticks, Fine to the tick of 0.1 s.    *)

Fine == 2                 \* fine ticks per tick of 0.1 s
MaxFineDelta == 3         \* a frame follows the previous one by 1..MaxFineDelta fine ticks
MaxSlots == 2             \* product slots run

StartWindow == 1          \* transformElapsed < 0.1, in ticks
MorphEndNum == 19         \* morphT >= 0.95
MorphEndDen == 20

\* productElapsed > timeline.productDuration - timeline.transformDuration
IsTransforming(productElapsed) ==
    productElapsed > (ProductDuration - TransformDuration) * Fine

TransformElapsed(productElapsed) ==
    productElapsed - (ProductDuration - TransformDuration) * Fine

\* if (transformElapsed < 0.1) onTransitionStart?.()
StartCalled(productElapsed) ==
    /\ IsTransforming(productElapsed)
    /\ TransformElapsed(productElapsed) < StartWindow * Fine

\* if (morphT >= 0.95) onTransitionEnd?.()
EndCalled(productElapsed) ==
    /\ IsTransforming(productElapsed)
    /\ LET d == TransformDuration * Fine
       IN  EaseInOutCubicNum(TransformElapsed(productElapsed), d) * MorphEndDen
              >= MorphEndNum * d * d * d

InitTransition ==
    /\ Init!1 /\ Init!2 /\ Init!3 /\ Init!4 /\ Init!5 /\ Init!6 /\ Init!7
    /\ Init!8 /\ Init!9 /\ Init!10 /\ Init!11 /\ Init!12 /\ Init!13 /\ Init!14
    /\ ui = [kind |-> "Transition", productElapsed |-> 0, slot |-> 0,
             morphing |-> FALSE, ended |-> FALSE, isTransitioning |-> FALSE]

\* a frame of the cycling phase, delta fine ticks after the previous one
TransitionFrame(delta) ==
    /\ ui.kind = "Transition"
    /\ ui.slot < MaxSlots
    /\ LET pe == ui.productElapsed + delta
           switch == pe > ProductDuration * Fine
       IN  ui' = [ui EXCEPT
                    !.productElapsed = IF switch THEN 0 ELSE pe,
                    !.slot = IF switch THEN @ + 1 ELSE @,
                    !.morphing = IsTransforming(pe),
                    !.ended = EndCalled(pe),
                    !.isTransitioning =
                        IF EndCalled(pe) THEN FALSE
                        ELSE IF StartCalled(pe) THEN TRUE
                        ELSE @]
    /\ UNCHANGED <<heroVars, gen, step>>

NextTransition == \E delta \in 1..MaxFineDelta : TransitionFrame(delta)

SpecTransition == InitTransition /\ [][NextTransition]_vars

----------------------------------------------------------------------------
(* The bar index recorded for every particle, next to the bar in which     *)
(* generateBarcodePositions placed the particle.                           *)

\* barIndices of the first snapshot: a Uint8Array filled bar by bar, then
\* Math.floor((i / pointsPerBar) % barCount) for the remaining particles
UseBarIndices(pc) ==
    LET pointsPerBar == pc \div BarCount
    IN  [i \in 1..pc |->
           IF i - 1 < BarCount * pointsPerBar
           THEN ToUint8((i - 1) \div pointsPerBar)
           ELSE ToUint8(IF pointsPerBar = 0 THEN NaN
                        ELSE ((i - 1) \div pointsPerBar) % BarCount)]

\* barcodeBarIndices of the second snapshot:
\* Math.min(Math.floor(i / pointsPerBar), BAR_COUNT - 1)
BarcodeBarIndices(pc) ==
    LET pointsPerBar == pc \div BarCount
    IN  [i \in 1..pc |-> MathMin(FloorDiv(i - 1, pointsPerBar), BarCount - 1)]

\* the bar generateBarcodePositions placed every particle in
PlacedBars(pc) == [i \in 1..pc |-> GenerateBarcodePositions(pc)[i].ref]

InitBars ==
    /\ Init!1 /\ Init!2 /\ Init!3 /\ Init!4 /\ Init!5 /\ Init!6 /\ Init!7
    /\ Init!8 /\ Init!9 /\ Init!10 /\ Init!11 /\ Init!12 /\ Init!14 /\ Init!15
    /\ \E pc \in 1..MaxPoints :
          gen = [kind |-> "mount", pointCount |-> pc, barCount |-> 0,
                 placed |-> << >>, indices |-> << >>]

Recorded(name, barCount, indices) ==
    /\ gen.kind = "mount"
    /\ gen' = [gen EXCEPT !.kind = name, !.barCount = barCount,
                          !.placed = PlacedBars(gen.pointCount),
                          !.indices = indices]
    /\ UNCHANGED <<heroVars, step, ui>>

MemoBarIndices == Recorded("barIndices", BarCount, UseBarIndices(gen.pointCount))
MemoBarcodeBarIndices ==
    Recorded("barcodeBarIndices", BarCount, BarcodeBarIndices(gen.pointCount))
MemoExplodeBarIndices ==
    Recorded("part_001", ExplodeBarCount, BarIndices(gen.pointCount))

NextBars ==
    \/ MemoBarIndices
    \/ MemoBarcodeBarIndices
    \/ MemoExplodeBarIndices

SpecBars == InitBars /\ [][NextBars]_vars

----------------------------------------------------------------------------
(* HomepageHero: the state the hero page keeps from the phase changes the  *)
(* animation reports.  The sources hold a handler that looks the index up  *)
(* behind a range test ("guarded") and handlers that look it up directly   *)
(* ("direct").  A product is the index of its entry in PRODUCTS; reading   *)
(* PRODUCTS at an index it has no entry for yields undefined.              *)

MaxCalls == 3         \* phase changes handled

Handlers == {"guarded", "direct"}

\* the indices the handler is called with: one below and one above the range
ProductIndices == (0 - 1)..NumProducts

undefined == [defined |-> FALSE, index |-> 0]

\* PRODUCTS[productIndex]
ProductAt(productIndex) ==
    IF productIndex >= 0 /\ productIndex < NumProducts
    THEN [defined |-> TRUE, index |-> productIndex]
    ELSE undefined

InitHomepage ==
    /\ Init!1 /\ Init!2 /\ Init!3 /\ Init!4 /\ Init!5 /\ Init!6 /\ Init!7
    /\ Init!8 /\ Init!9 /\ Init!10 /\ Init!11 /\ Init!12 /\ Init!13 /\ Init!14
    /\ \E h \in Handlers :
          ui = [kind |-> "HomepageHero", handler |-> h, phase |-> "intro",
                currentProduct |-> ProductAt(0), lastIndex |-> 0, calls |-> 0]

\* handlePhaseChange(newPhase, productIndex)
HandlePhaseChange(newPhase, productIndex) ==
    /\ ui.kind = "HomepageHero"
    /\ ui.calls < MaxCalls
    /\ LET inRange == productIndex >= 0 /\ productIndex < NumProducts
           product == IF ui.handler = "guarded" /\ ~ inRange
                      THEN ui.currentProduct
                      ELSE ProductAt(productIndex)
       IN  ui' = [ui EXCEPT !.phase = newPhase, !.currentProduct = product,
                            !.lastIndex = productIndex, !.calls = @ + 1]
    /\ UNCHANGED <<heroVars, gen, step>>

NextHomepage ==
    \E newPhase \in Phases, productIndex \in ProductIndices :
        HandlePhaseChange(newPhase, productIndex)

SpecHomepage == InitHomepage /\ [][NextHomepage]_vars

----------------------------------------------------------------------------
(* The consumer page: the Scan and Trace buttons and the animation frames  *)
(* that play them, as the plain-script page ("script") and as the React    *)
(* page ("react").  Time is counted in ticks of 250 ms; sinceScan and      *)
(* sinceTrace are performance.now() minus the recorded start time.  The    *)
(* scan line is kept as its numerator over 10 * ScanDuration, the trace    *)
(* progress as its numerator over TraceDuration^3.  In the React page the  *)
(* state set from an animation frame is batched (next) and committed       *)
(* later; a click renders before the next event.  ignored records the     *)
(* button whose last click returned early.                                 *)

MaxFrameDelta == 3    \* ticks between two animation frames: 1..MaxFrameDelta

ScanDuration == 6     \* scanDuration = 1500 ms
TraceDuration == 8    \* traceDuration = 2000 ms
JourneySteps == 4     \* the journey steps: Farm, Transport, Production, Shop

ConsumerPages == {"script", "react"}

\* the guards of the click handlers
ClickAlways(busy) == TRUE
ClickAllowed(busy) == ~ busy

\* -0.2 + progress * 1.4, progress = elapsed / scanDuration
ScanLineAt(elapsed) == 14 * elapsed - 2 * ScanDuration
ScanLineEnd == ScanLineAt(ScanDuration)
ScanLineRest == 0 - 2 * ScanDuration

\* 1 - Math.pow(1 - progress, 3), progress = Math.min(elapsed / traceDuration, 1.0)
EasedProgress(elapsed) ==
    LET left == TraceDuration - Min(elapsed, TraceDuration)
    IN  TraceDuration * TraceDuration * TraceDuration - left * left * left

\* the steps at or below the progress: easedProgress >= index / (length - 1)
StepsFromEnd(eased) ==
    {index \in 0..(JourneySteps - 1) :
        eased * (JourneySteps - 1)
            >= (JourneySteps - 1 - index)
                   * TraceDuration * TraceDuration * TraceDuration}
StepsAt(eased) ==
    {index \in 0..(JourneySteps - 1) :
        eased * (JourneySteps - 1)
            >= index * TraceDuration * TraceDuration * TraceDuration}

InitConsumer ==
    /\ Init!1 /\ Init!2 /\ Init!3 /\ Init!4 /\ Init!5 /\ Init!6 /\ Init!7
    /\ Init!8 /\ Init!9 /\ Init!10 /\ Init!11 /\ Init!12 /\ Init!13 /\ Init!14
    /\ \E page \in ConsumerPages :
          LET st == [isScanning |-> FALSE, showPassport |-> FALSE,
                     brightness |-> 0, scanLine |-> ScanLineRest,
                     isTracing |-> FALSE, traceProgress |-> 0]
          IN  ui = [kind |-> "Consumer", page |-> page, st |-> st, next |-> st,
                    sinceScan |-> 0, sinceTrace |-> 0,
                    scanLoops |-> IF page = "script" THEN 1 ELSE 0,
                    traceLoops |-> IF page = "script" THEN 1 ELSE 0,
                    reached |-> {}, ignored |-> "none"]

\* the Scan click handler
HandleScan ==
    /\ ui.kind = "Consumer"
    /\ IF ClickAllowed(ui.st.isScanning)
       THEN LET set(s) == [s EXCEPT !.isScanning = TRUE, !.brightness = 1,
                                    !.scanLine = ScanLineRest]
            IN  ui' = [ui EXCEPT
                         !.st = set(@), !.next = set(@), !.sinceScan = 0,
                         !.ignored = "none",
                         !.scanLoops = IF ui.page = "react" /\ ~ ui.st.isScanning
                                       THEN @ + 1 ELSE @]
       ELSE ui' = [ui EXCEPT !.ignored = "scan"]
    /\ UNCHANGED <<heroVars, gen, step>>

\* the Trace click handler
HandleTrace ==
    /\ ui.kind = "Consumer"
    /\ IF ClickAllowed(ui.st.isTracing)
       THEN LET set(s) == [s EXCEPT !.isTracing = TRUE,
                                    !.traceProgress =
                                        IF ui.page = "react" THEN 0 ELSE @]
            IN  ui' = [ui EXCEPT
                         !.st = set(@), !.next = set(@), !.sinceTrace = 0,
                         !.ignored = "none",
                         !.reached = IF ui.page = "react" THEN StepsAt(0) ELSE {},
                         !.traceLoops = IF ui.page = "react" /\ ~ ui.st.isTracing
                                        THEN @ + 1 ELSE @]
       ELSE ui' = [ui EXCEPT !.ignored = "trace"]
    /\ UNCHANGED <<heroVars, gen, step>>

\* one animation frame, delta ticks after the previous one: the scan part
\* and the trace part of animate, each run by its loop
AnimateFrame(delta) ==
    /\ ui.kind = "Consumer"
    /\ LET script == ui.page = "script"
           scanRuns == IF script THEN ui.st.isScanning ELSE ui.scanLoops > 0
           traceRuns == IF script THEN ui.st.isTracing ELSE ui.traceLoops > 0
           scanT == ui.sinceScan + delta
           traceT == ui.sinceTrace + delta
           scanDone == scanT >= ScanDuration
           traceDone == traceT >= TraceDuration
           eased == EasedProgress(traceT)
           afterScan(s) ==
               IF ~ scanRuns THEN s
               ELSE IF scanDone
                    THEN [s EXCEPT !.isScanning = FALSE, !.showPassport = TRUE,
                                   !.brightness = 0, !.scanLine = ScanLineRest]
                    ELSE [s EXCEPT !.scanLine = ScanLineAt(scanT)]
           afterTrace(s) ==
               IF ~ traceRuns THEN s
               ELSE [s EXCEPT !.traceProgress = eased,
                              !.isTracing = IF traceDone THEN FALSE ELSE @]
           new == afterTrace(afterScan(ui.next))
       IN  /\ scanRuns \/ traceRuns
           /\ ui' = [ui EXCEPT
                  !.next = new,
                  !.ignored = "none",
                  !.st = IF script THEN new ELSE @,
                  !.sinceScan = IF ~ scanRuns THEN @
                                ELSE IF script /\ scanDone THEN 0 ELSE scanT,
                  !.sinceTrace = IF ~ traceRuns THEN @
                                 ELSE IF script /\ traceDone THEN 0 ELSE traceT,
                  !.scanLoops = IF ~ script /\ scanRuns /\ scanDone THEN 0 ELSE @,
                  !.traceLoops = IF ~ script /\ traceRuns /\ traceDone THEN 0 ELSE @,
                  !.reached = IF script /\ traceRuns
                              THEN @ \cup StepsAt(eased) ELSE @]
    /\ UNCHANGED <<heroVars, gen, step>>

\* the React page renders the state set by the animation frames
ConsumerCommit ==
    /\ ui.kind = "Consumer"
    /\ ui.page = "react"
    /\ ui.st # ui.next
    /\ ui' = [ui EXCEPT
                !.st = ui.next,
                !.reached = StepsAt(ui.next.traceProgress),
                !.sinceScan = IF ui.scanLoops = 0 THEN 0 ELSE @,
                !.sinceTrace = IF ui.traceLoops = 0 THEN 0 ELSE @]
    /\ UNCHANGED <<heroVars, gen, step>>

NextConsumer ==
    \/ HandleScan
    \/ HandleTrace
    \/ \E delta \in 1..MaxFrameDelta : AnimateFrame(delta)
    \/ ConsumerCommit

SpecConsumer == InitConsumer /\ [][NextConsumer]_vars

\* animation frames keep coming and React renders what was set
FairConsumer ==
    /\ SpecConsumer
    /\ WF_vars(\E delta \in 1..MaxFrameDelta : AnimateFrame(delta))
    /\ WF_vars(ConsumerCommit)

----------------------------------------------------------------------------
(* ProductInfoTile under HomepageHero: the info panels of the product the  *)
(* hero shows, driven by the callbacks of the cycling phase.  Time is      *)
(* counted in fine ticks; a frame runs every fine tick.  A product is its  *)
(* index in PRODUCTS, NoIdx is null.  The page starts in the intro phase;  *)
(* the preload phase is passed without its own morph.                      *)
(* React renders and runs the effects before the next tick.  seen1 and     *)
(* seen2 are the dependencies the two effects last ran with; slideOuts     *)
(* and slideIns count the slides since the last transition start.          *)

SlideOutTime == 4 * Fine      \* setTimeout(..., 400)
SlideInTime == Fine \div 2    \* setTimeout(..., 50)

\* the `product` prop: currentProduct in the phases that show a product
ProductProp(ph, currentProduct) ==
    IF ph = "preload" \/ ph = "cycling" THEN currentProduct ELSE NoIdx

\* the dependencies of the slide-out effect and of the visibility effect
Deps1(u) == <<u.isTransitioning, u.isVisible, u.isSlidingOut, u.displayProduct>>
Deps2(u) == <<u.phase, ProductProp(u.phase, u.currentProduct), u.isSlidingOut>>

InitTile ==
    /\ Init!1 /\ Init!2 /\ Init!3 /\ Init!4 /\ Init!5 /\ Init!6 /\ Init!7
    /\ Init!8 /\ Init!9 /\ Init!10 /\ Init!11 /\ Init!12 /\ Init!13 /\ Init!14
    /\ LET u == [kind |-> "Tile", phase |-> "intro", currentProduct |-> 0,
                 isTransitioning |-> FALSE, productElapsed |-> 0, slot |-> 0,
                 isVisible |-> FALSE, isSlidingOut |-> FALSE,
                 displayProduct |-> NoIdx,
                 slideOutTimer |-> NoTimer, slideInTimer |-> NoTimer,
                 slideInProduct |-> NoIdx, slideOuts |-> 0, slideIns |-> 0]
       IN  ui = [f \in DOMAIN u \cup {"seen1", "seen2"} |->
                    IF f = "seen1" THEN <<>> ELSE IF f = "seen2" THEN <<>> ELSE u[f]]

EffectsDue == Deps1(ui) # ui.seen1 \/ Deps2(ui) # ui.seen2
TimerDue == ui.slideOutTimer = 0 \/ ui.slideInTimer = 0

\* the effects of ProductInfoTile after a render, in the order they are
\* declared; their state updates are batched into the next render
TileEffects ==
    /\ ui.kind = "Tile"
    /\ EffectsDue
    /\ LET run1 == Deps1(ui) # ui.seen1
           run2 == Deps2(ui) # ui.seen2
           product == ProductProp(ui.phase, ui.currentProduct)
           slideOut == /\ run1 /\ ui.isTransitioning /\ ui.isVisible
                       /\ ~ ui.isSlidingOut /\ ui.displayProduct # NoIdx
           shown == ui.phase \in {"preload", "cycling"} /\ product # NoIdx
           wait == run2 /\ shown /\ ui.isSlidingOut
           show == run2 /\ shown /\ ~ ui.isSlidingOut
           hide == run2 /\ ~ shown
       IN  ui' = [ui EXCEPT
              !.seen1 = Deps1(ui), !.seen2 = Deps2(ui),
              !.isSlidingOut = IF hide THEN FALSE ELSE IF slideOut THEN TRUE ELSE @,
              !.slideOuts = IF slideOut /\ ~ hide THEN @ + 1 ELSE @,
              !.isVisible = IF show THEN TRUE ELSE IF hide THEN FALSE ELSE @,
              !.slideIns = IF show /\ ~ ui.isVisible /\ ui.slideOuts > 0
                           THEN @ + 1 ELSE @,
              !.displayProduct = IF show THEN product
                                 ELSE IF hide THEN NoIdx ELSE @,
              !.slideOutTimer = IF wait THEN SlideOutTime
                                ELSE IF run2 THEN NoTimer ELSE @,
              !.slideInProduct = IF wait THEN product ELSE @]
    /\ UNCHANGED <<heroVars, gen, step>>

\* the slide-out timer: hide the panels and arm the slide-in timer
SlideOutTimeout ==
    /\ ui.kind = "Tile"
    /\ ~ EffectsDue
    /\ ui.slideOutTimer = 0
    /\ ui' = [ui EXCEPT !.slideOutTimer = NoTimer, !.isSlidingOut = FALSE,
                        !.isVisible = FALSE, !.slideInTimer = SlideInTime]
    /\ UNCHANGED <<heroVars, gen, step>>

\* the slide-in timer: show the product the effect that armed it was run for
SlideInTimeout ==
    /\ ui.kind = "Tile"
    /\ ~ EffectsDue
    /\ ui.slideOutTimer # 0
    /\ ui.slideInTimer = 0
    /\ ui' = [ui EXCEPT !.slideInTimer = NoTimer,
                        !.displayProduct = ui.slideInProduct,
                        !.isVisible = TRUE,
                        !.slideIns = IF ~ ui.isVisible /\ ui.slideOuts > 0
                                     THEN @ + 1 ELSE @]
    /\ UNCHANGED <<heroVars, gen, step>>

\* handlePhaseChange('preload', 0) and handlePhaseChange('cycling', 1): the
\* hero leaves the intro phase and enters the cycling phase
TilePhaseChange ==
    /\ ui.kind = "Tile"
    /\ ui.phase \in {"intro", "preload"}
    /\ ~ EffectsDue
    /\ ui' = [ui EXCEPT !.phase = NextPhase(@),
                        !.currentProduct = IF ui.phase = "intro" THEN 0 ELSE 1,
                        !.productElapsed = 0]
    /\ UNCHANGED <<heroVars, gen, step>>

\* one fine tick passes and a frame of the cycling phase runs: the product
\* switch, onTransitionStart and onTransitionEnd reach the page's handlers
TileFrame ==
    /\ ui.kind = "Tile"
    /\ ui.phase = "cycling"
    /\ ui.slot < MaxSlots
    /\ ~ EffectsDue /\ ~ TimerDue
    /\ LET pe == ui.productElapsed + 1
           switch == pe > ProductDuration * Fine
           down(t) == IF t = NoTimer THEN NoTimer ELSE t - 1
       IN  ui' = [ui EXCEPT
              !.productElapsed = IF switch THEN 0 ELSE pe,
              !.slot = IF switch THEN @ + 1 ELSE @,
              !.currentProduct = IF switch THEN NextProductIndex(@) ELSE @,
              !.isTransitioning = IF EndCalled(pe) THEN FALSE
                                  ELSE IF StartCalled(pe) THEN TRUE ELSE @,
              !.slideOuts = IF StartCalled(pe) /\ ~ ui.isTransitioning THEN 0 ELSE @,
              !.slideIns = IF StartCalled(pe) /\ ~ ui.isTransitioning THEN 0 ELSE @,
              !.slideOutTimer = down(@), !.slideInTimer = down(@)]
    /\ UNCHANGED <<heroVars, gen, step>>

NextTile ==
    \/ TilePhaseChange
    \/ TileFrame
    \/ TileEffects
    \/ SlideOutTimeout
    \/ SlideInTimeout

SpecTile == InitTile /\ [][NextTile]_vars

----------------------------------------------------------------------------
(* Claims about the hero engine (checked under Spec) *)

FrameStep == now' # now
Fired == events' # events
Last(s) == s[Len(s)]

\* C1 (as amended): a phase with a positive duration ends on the first
\* update at which its elapsed time is strictly greater than its duration;
\* an update at which the elapsed time equals the duration does not end it,
\* so the 3.5 s intro never ends at or before 3.5 s.  On the ending update
\* the successor phase is requested and announced, and the intro, whose
\* handler resets the elapsed clock on that update, is ended exactly once.
C1_StrictExpiry ==
    [][ FrameStep =>
          LET elapsed == now' - phaseStartTime
              productElapsed == now' - productStartTime
          IN  /\ phase = "intro" => (Fired <=> elapsed > Intro)
              /\ phase = "preload" => (Fired <=> elapsed > Preload)
              /\ phase = "cycling" => (Fired <=> productElapsed > ProductDuration)
              /\ (Fired /\ phase = "intro") =>
                    /\ events' = Append(events, Event("preload", 0))
                    /\ pendPhase' = "preload"
                    /\ phaseStartTime' = now'
                    /\ now' > Intro
                    /\ \A i \in 1..Len(events) : events[i].phase # "preload"
              /\ (Fired /\ phase = "preload") =>
                    /\ events' = Append(events, Event("cycling", 1))
                    /\ pendPhase' = "cycling"
              /\ (Fired /\ phase = "cycling") => productStartTime' = now'
      ]_vars

\* C1 witness: updates every 0.1 s; the intro has ended on the update at 3.6 s
C1_Witness ==
    /\ events = <<Event("preload", 0)>>
    /\ now = Intro + 1
    /\ phaseStartTime = now
    /\ pendPhase = "preload"

\* C1 (original): the phase ends on the first update at which its elapsed
\* time is greater than or equal to its duration
C1_Original ==
    [][ FrameStep =>
          /\ (phase = "intro" /\ now' - phaseStartTime >= Intro) => Fired
          /\ (phase = "preload" /\ now' - phaseStartTime >= Preload) => Fired
          /\ (phase = "cycling" /\ now' - productStartTime >= ProductDuration) => Fired
      ]_vars

\* C2: every phase-change event carries a product index in [0, NumProducts)
\* and each event after the first carries the previous event's index plus
\* one modulo NumProducts: cyclic order, no product skipped or repeated
C2_CyclicOrder ==
    \A i \in 1..Len(events) :
        /\ events[i].productIndex \in 0..(NumProducts - 1)
        /\ i > 1 => events[i].productIndex
                       = (events[i - 1].productIndex + 1) % NumProducts

MovingToward(tg, k) == tg.to = Product(k) /\ tg.num > 0

\* C3 (as amended): the morph toward product k precedes its announcement:
\* on every update that emits the phase-change event for product k, the
\* target of the frame before was already moving toward product k's shape,
\* and so is the target of the emitting frame
C3_MorphPrecedesEvent ==
    [][ Fired => /\ MovingToward(target, Last(events').productIndex)
                 /\ MovingToward(target', Last(events').productIndex)
      ]_vars

\* C3 witness: product 1 has been announced after the frames that moved
\* the particles toward it
C3_Witness ==
    /\ events # << >>
    /\ Last(events) = Event("cycling", 1)
    /\ target.from = Product(0)
    /\ MovingToward(target, 1)

\* C3 (original): whenever the interpolator moves particles toward product
\* k's shape, the event announcing k has already been delivered
C3_Original ==
    \A k \in 0..(NumProducts - 1) :
        (MovingToward(target, k) /\ target.from # target.to) =>
            (events # << >> /\ Last(events).productIndex = k)

\* C9 (as amended): rotationAngle is 0 on entering the rotation-enabled
\* preload phase from the non-rotating intro; on entering cycling directly
\* from preload it is not reset but carries preload's accumulated angle
C9_ZeroOnEnteringFromIntro ==
    [][ /\ (phase = "intro" /\ phase' = "preload") => rotationAngle' = 0
        /\ (phase = "preload" /\ phase' = "cycling") =>
              (rotationAngle' = rotationAngle /\ rotationAngle' # 0)
      ]_vars

\* C9 witness: preload has just been entered and no frame has rotated yet
C9_Witness ==
    phase = "preload" /\ rotationAngle = 0 /\ events = <<Event("preload", 0)>>

\* C9 (original): rotationAngle is 0 on entering any rotation-enabled phase
C9_Original ==
    [][ (phase' # phase /\ phase' \in {"preload", "cycling"}) => rotationAngle' = 0
      ]_vars

\* C10 (as amended): rotationAngle is reset only by a frame on which
\* rotation is not enabled; once preload has been entered every frame
\* rotates, so the angle never decreases, and exiting the rotation-enabled
\* preload phase (into cycling) leaves the accumulated angle in place
C10_NoResetOnExit ==
    [][ /\ phase \in {"preload", "cycling"} => rotationAngle' >= rotationAngle
        /\ (phase = "preload" /\ phase' # phase) => rotationAngle' > 0
      ]_vars

\* C10 witness: preload has been exited and the angle is still accumulated
C10_Witness ==
    phase = "cycling" /\ rotationAngle > Preload /\ ~ Pending

\* C10 (original): rotationAngle is reset to 0 whenever a rotation-enabled
\* phase is exited
C10_Original ==
    [][ (phase \in {"preload", "cycling"} /\ phase' # phase) => rotationAngle' = 0
      ]_vars

----------------------------------------------------------------------------
(* Claims about the shape generators (checked under SpecGen) *)

GenDone == gen.kind \notin {"idle", "input"}

\* C4: every shape generator returns exactly pointCount points for every
\* pointCount > 0, in the understocked (repeat-with-jitter) and in the
\* overstocked (stride-sample) branch of mesh sampling too
C4_ExactLength == GenDone => Len(gen.out) = gen.pointCount

\* C4 witness: mesh sampling of a mesh with fewer vertices than pointCount
C4_Witness ==
    /\ gen.kind = "extractModelPositions"
    /\ gen.verts > 0 /\ gen.verts < gen.pointCount
    /\ Len(gen.out) = gen.pointCount
    /\ gen.out[gen.pointCount].jitter

PointsInBar(out, b) == Cardinality({i \in 1..Len(out) : out[i].ref = b})

RECURSIVE SumBars(_, _)
SumBars(out, n) == IF n = 0 THEN 0 ELSE PointsInBar(out, n - 1) + SumBars(out, n - 1)

BarsOf(kind) == IF kind = "generateBarcodePositions" THEN BarCount ELSE RandomBarCount

\* C5: the per-bar point counts of the barcode sum to exactly pointCount,
\* also when pointCount is not divisible by the bar count: the leftover
\* points are assigned to bars (in the fixed-width barcode every bar holds
\* floor(pointCount / barCount) points or one more)
C5_BarsSumToPointCount ==
    gen.kind \in BarcodeGenerators =>
        /\ SumBars(gen.out, BarsOf(gen.kind)) = gen.pointCount
        /\ gen.kind = "generateBarcodePositions" =>
              \A b \in 0..(BarCount - 1) :
                  PointsInBar(gen.out, b) - (gen.pointCount \div BarCount) \in {0, 1}

\* C5 witness: a point count above the bar count and not divisible by it
C5_Witness ==
    /\ gen.kind = "generateBarcodePositions"
    /\ gen.pointCount > BarCount
    /\ gen.pointCount % BarCount # 0
    /\ PointsInBar(gen.out, 0) = (gen.pointCount \div BarCount) + 1

\* C6: given a mesh with zero vertices, every mesh-sampled generator returns
\* the fallback jittered cube of exactly pointCount points
C6_ZeroVerticesFallback ==
    (gen.kind \in MeshGenerators /\ gen.verts = 0) =>
        /\ Len(gen.out) = gen.pointCount
        /\ \A i \in 1..Len(gen.out) : gen.out[i].src = "cube"

----------------------------------------------------------------------------
(* Claims about the interpolator (checked under SpecStep) *)

Abs(n) == IF n < 0 THEN 0 - n ELSE n

Approaches(before, after, goal) ==
    /\ Abs(goal - after) <= Abs(goal - before)
    /\ (goal - before) * (goal - after) >= 0

\* C7: a step at phaseProgress = 1 moves every particle's coordinates
\* toward the target monotonically and never past it, for every frame delta
C7_NoOvershoot ==
    (step.kind = "run" /\ step.frames > 0 /\ ~ step.rotated) =>
        \A i \in 1..Len(step.pos) :
            /\ Approaches(step.prev[i].x, step.pos[i].x, step.tv[i].x)
            /\ Approaches(step.prev[i].y, step.pos[i].y, step.tv[i].y)
            /\ Approaches(step.prev[i].z, step.pos[i].z, step.tv[i].z)

AxisDistSq(v) == v.x * v.x + v.z * v.z

\* C8: in a rotation-enabled phase the displayed position of every particle
\* is the scaled target shape's coordinate turned around the vertical axis:
\* its height is the target's and its distance from the rotation axis is
\* the target's on every frame, whatever the previous frame displayed
C8_RotatesCanonicalTarget ==
    (step.kind = "run" /\ step.rotated) =>
        \A i \in 1..Len(step.pos) :
            /\ step.pos[i].y = step.tv[i].y
            /\ AxisDistSq(step.pos[i]) = AxisDistSq(step.tv[i])
            /\ step.pos[i] = RotateY(step.tv[i], rotationAngle)

\* C8 witness: a second rotating frame, displayed off the target's own
\* coordinates and after a frame that displayed another rotation
C8_Witness ==
    /\ step.kind = "run" /\ step.rotated
    /\ rotationAngle = MaxAngle
    /\ step.prev # step.pos
    /\ step.pos # step.tv
    /\ step.prev # ShapeOf("scatter")

----------------------------------------------------------------------------
(* Claims about the stagger (checked under SpecStagger) *)

\* a/b >= c/d for positive denominators
RatGeq(a, b) == a.num * b.den >= b.num * a.den

----------------------------------------------------------------------------
(* Claims about ScanCheckTrust (checked under SpecSct) *)

Waiting == ui.kind = "ScanCheckTrust" /\ DurationOf(ui.currentIndex) = 0

LastIndex == Len(SEQUENCE) - 1

\* a step that changes the index while the sequence plays moves it up by
\* one, when the item has been shown for its configured duration
AdvancesByOne ==
    (ui.currentIndex >= 0 /\ ui'.currentIndex # ui.currentIndex) =>
        /\ ui'.currentIndex = ui.currentIndex + 1
        /\ ui.shown = SEQUENCE[ui.currentIndex + 1]

\* C35 as stated: the index stays at -1 until the first click; once started
\* it advances by exactly one after each item's configured duration, visits
\* every item in order, never exceeds SEQUENCE.length - 1 and stops on the
\* last item
C35_Original ==
    [][ ui.kind = "ScanCheckTrust" =>
          /\ ui.clicks = 0 => ui.currentIndex = 0 - 1
          /\ ui'.currentIndex <= LastIndex
          /\ AdvancesByOne
          /\ ui.currentIndex = LastIndex => ui'.currentIndex = LastIndex
      ]_vars

\* C35: as stated for the steps of the timer; a click, which the component
\* accepts also while the sequence plays and after it has stopped, sets
\* the index back to 0 and starts the first item's duration anew
C35_AdvancesUntilClicked ==
    [][ ui.kind = "ScanCheckTrust" =>
          /\ ui.clicks = 0 => ui.currentIndex = 0 - 1
          /\ ui'.currentIndex <= LastIndex
          /\ ui'.clicks = ui.clicks =>
                /\ AdvancesByOne
                /\ ui.currentIndex = LastIndex => ui'.currentIndex = LastIndex
          /\ ui'.clicks # ui.clicks =>
                /\ ui'.currentIndex = 0
                /\ ui'.timer = SEQUENCE[1] /\ ui'.shown = 0
      ]_vars

\* C35 witness: a sequence restarted by a click while it played has run to
\* the last item, later than a sequence played once reaches it, and has
\* stopped there
C35_Witness ==
    /\ ui.kind = "ScanCheckTrust"
    /\ ui.clicks = 2
    /\ ui.currentIndex = LastIndex
    /\ ui.timer = NoTimer
    /\ ui.shown > SEQUENCE[Len(SEQUENCE)]
    /\ ui.clock - ui.shown > SEQUENCE[1] + SEQUENCE[2] + SEQUENCE[3] + SEQUENCE[4]
                                + SEQUENCE[5] + SEQUENCE[6] + SEQUENCE[7]

----------------------------------------------------------------------------
(* Claims about PassportParticlePhoto (checked under SpecPassport) *)

BufferWritten == ui'.buffer # ui.buffer
ByFrame == ui'.frames = ui.frames + 1
ByEffect == ui'.effects = ui.effects + 1

\* C14 (as amended): the position buffer is written by the per-frame update
\* and, besides it, by the view's own effect on a change of the positions
\* to show: the effect overwrites the buffer with the new base positions,
\* unrotated, outside any frame.  No other step writes the buffer.
C14_FrameAndResetEffectWrite ==
    [][ /\ BufferWritten => (ByFrame \/ ByEffect)
        /\ ByEffect => /\ ui'.buffer = [shape |-> ui'.base, angle |-> 0]
                       /\ ui'.angle = 0
                       /\ ui'.frames = ui.frames
      ]_vars

\* C14 witness: the effect has overwritten a buffer the frames had rotated
C14_Witness ==
    /\ ui.kind = "PassportParticlePhoto"
    /\ ui.effects = 2
    /\ ui.frames > 0 /\ ui.frames < MaxPassportFrames
    /\ ui.buffer = [shape |-> <<ui.productIndex, TRUE>>, angle |-> 0]
    /\ ~ ui.effectDue

\* C14 (original): the position buffer has exactly one writer, the
\* per-frame update routine
C14_Original == [][ BufferWritten => ByFrame ]_vars

----------------------------------------------------------------------------
(* Claims about the Preloader (checked under SpecPreloader) *)

\* C15: after teardown no further update runs and no stale completion
\* event is delivered to a collaborator, including events scheduled by
\* timers before the teardown
C15_NoStaleEventAfterTeardown ==
    (ui.kind = "Preloader" /\ ~ ui.mounted) =>
        /\ ui.stale = 0
        /\ ~ ui.interval

----------------------------------------------------------------------------
(* Claims about two concurrent engines (checked under SpecEngines) *)

----------------------------------------------------------------------------
(* Claims about skipped updates (checked under SpecSkip) *)

\* the step is the first frame after a pause in which updates were skipped
Resumed == now' - now > MaxDelta

\* C18: skipping update calls freezes the animation: the time during which
\* frames were skipped does not count toward the elapsed time of the phase,
\* so the first frame after the pause ends a phase only if a frame that
\* followed the last one at a frame interval would have ended it
C18_SkippedTimeNotCounted ==
    [][ (Resumed /\ Fired) =>
          LET unskipped == now + MaxDelta
          IN  /\ phase = "intro" => unskipped - phaseStartTime > Intro
              /\ phase = "preload" => unskipped - phaseStartTime > Preload
              /\ phase = "cycling" =>
                    unskipped - productStartTime > ProductDuration
      ]_vars

----------------------------------------------------------------------------
(* Claims about vertical placement (checked under SpecPlace) *)

\* C19: placement offsets are applied only by the interpolator: every
\* generator emits its shape centred at the origin with no offset baked in,
\* so every product vertex is placed at its scaled height plus the one
\* vertical offset of the interpolator
C19_OffsetOnlyByInterpolator ==
    gen.kind = "place" =>
        /\ gen.stage # "mesh" => gen.out = gen.y
        /\ gen.stage = "placed" =>
              gen.placed = (gen.y * ScaleNum) \div ScaleDen
                              - (OffsetNum * PlaceDen) \div OffsetDen

----------------------------------------------------------------------------
(* Claims about mesh sampling (checked under SpecGen) *)

\* C20: when the mesh has at least pointCount vertices, the generator
\* stride-samples evenly across the vertex list: the sampled vertex indices
\* are taken at a constant stride, are within bounds and pairwise distinct,
\* and span the list from its start to within one stride of its end
C20_EvenStrideSampling ==
    (/\ gen.kind \in {"extractModelPositions", "useTShirtPositions"}
     /\ gen.verts >= gen.pointCount) =>
        LET pc == gen.pointCount
            idx(i) == gen.out[i].ref
        IN  /\ Len(gen.out) = pc
            /\ \A i \in 1..pc : gen.out[i].src = "vertex"
            /\ \A i \in 1..pc : idx(i) \in 0..(gen.verts - 1)
            /\ \A i, j \in 1..pc : i # j => idx(i) # idx(j)
            /\ \E stride \in 1..gen.verts :
                  /\ \A i \in 1..(pc - 1) : idx(i + 1) - idx(i) = stride
                  /\ idx(1) = 0
                  /\ (gen.verts - 1) - idx(pc) <= stride

\* C21: when the mesh has fewer than pointCount vertices, output point i is
\* built from vertex i mod vertexCount, and every repeated use of a vertex
\* is displaced by a jitter, so that no repeated point is a literal
\* duplicate of an earlier one
C21_RepeatsAreJittered ==
    (/\ gen.kind \in {"extractModelPositions", "extractBatteryPositions"}
     /\ gen.verts > 0
     /\ gen.verts < gen.pointCount) =>
        \A i \in 1..Len(gen.out) :
            /\ gen.out[i].src = "vertex"
            /\ gen.out[i].ref = (i - 1) % gen.verts
            /\ (i - 1) >= gen.verts => gen.out[i].jitter

----------------------------------------------------------------------------
(* Claims about the stepped timeline (checked under SpecTimeline) *)

Epsilon == DistUnit \div 1000
AfterFourSeconds == ui.kind = "Timeline" /\ ui.frame = 4 * FramesPerSecond
NearBarcode == \A k \in 1..Len(Followed) : Abs(ui.pos[k] - PhaseTargetPos(2)) <= Epsilon

----------------------------------------------------------------------------
(* Claims about model loading (checked under SpecLoad) *)

\* C23: a mesh-sampled generator invoked before the asynchronous load of
\* its model has completed returns the fallback cube of pointCount points
\* instead of blocking or suspending the caller
C23_FallbackCubeWhileLoading ==
    (ui.kind = "Load" /\ ui.seen = "pending") =>
        /\ ui.result = "returned"
        /\ Len(ui.out) = ui.pointCount
        /\ \A i \in 1..Len(ui.out) : ui.out[i].src = "cube"

----------------------------------------------------------------------------
(* Further claims about the hero engine (checked under Spec) *)

\* C24: each phase transition invokes onPhaseChange exactly once: a frame
\* that runs while a requested phase or product index has not been applied
\* yet announces no transition
C24_TransitionFiresOnce ==
    [][ (FrameStep /\ Fired) => (pendPhase = "none" /\ pendIdx = NoIdx) ]_vars

\* C25: on every frame of the cycling phase in which no morph is in
\* progress, the target is the shape of the product index most recently
\* announced through onPhaseChange, also on frames that run before the
\* index update has been applied
C25_TargetsAnnouncedProduct ==
    [][ (FrameStep /\ phase = "cycling" /\ target'.from = target'.to) =>
          /\ events' # << >>
          /\ target'.to = Product(Last(events').productIndex)
      ]_vars

\* C27: the blend factor that mixes the current and the next product shape
\* during a product morph lies in [0, 1] on every frame, so the blended
\* target never lies beyond the next product's shape
C27_BlendFactorInUnitInterval ==
    target.from # target.to => (0 <= target.num /\ target.num <= target.den)

----------------------------------------------------------------------------
(* Claims about the transition callbacks (checked under SpecTransition) *)

\* C26: for every product morph onTransitionStart is invoked when the morph
\* begins and onTransitionEnd when it completes, whatever the frame timing:
\* after a frame of the morph that did not call onTransitionEnd
\* isTransitioning is true, and after a frame that holds a product it is
\* false
C26_TransitioningDuringMorph ==
    ui.kind = "Transition" =>
        /\ (ui.morphing /\ ~ ui.ended) => ui.isTransitioning
        /\ ~ ui.morphing => ~ ui.isTransitioning

----------------------------------------------------------------------------
(* Claims about the recorded bar indices (checked under SpecBars) *)

\* C29: for every pointCount > 0 every particle's recorded bar index is an
\* integer in [0, barCount - 1], also when pointCount is not divisible by
\* barCount or is smaller than barCount
C29_BarIndexInRange ==
    gen.kind \in {"barIndices", "barcodeBarIndices", "part_001"} =>
        /\ Len(gen.indices) = gen.pointCount
        /\ \A i \in 1..Len(gen.indices) : gen.indices[i] \in 0..(gen.barCount - 1)

\* C30: the bar index recorded for particle i is the index of the bar in
\* which generateBarcodePositions placed particle i, for every particle,
\* the remainder particles included
C30_BarIndexIsPlacedBar ==
    gen.kind \in {"barIndices", "barcodeBarIndices"} =>
        \A i \in 1..gen.pointCount : gen.indices[i] = gen.placed[i]

----------------------------------------------------------------------------
(* Claims about the hero page (checked under SpecHomepage) *)

\* C31: whatever productIndex the phase-change handler is called with, an
\* out-of-range one included, the product the hero page shows is an element
\* of PRODUCTS and never undefined
C31_ProductAlwaysDefined ==
    ui.kind = "HomepageHero" => ui.currentProduct.defined

----------------------------------------------------------------------------
(* Claims about the consumer page (checked under SpecConsumer and          *)
(* FairConsumer)                                                           *)

\* C32: while a scan is in progress a further Scan click has no effect: the
\* time since the scan start does not go back, the brightness stays, no
\* second loop is started, and at most one scan loop runs at any time
C32_ScanClickIgnoredWhileScanning ==
    [][ ui.kind = "Consumer" =>
          /\ ui'.scanLoops <= 1
          /\ (ui.st.isScanning /\ ui'.st.isScanning) =>
                /\ ui'.sinceScan >= ui.sinceScan
                /\ ui'.st.brightness = ui.st.brightness
                /\ ui'.scanLoops <= ui.scanLoops
      ]_vars

C32_Witness ==
    /\ ui.kind = "Consumer" /\ ui.page = "react"
    /\ ui.ignored = "scan"
    /\ ui.st.isScanning /\ ui.sinceScan > 0 /\ ui.scanLoops = 1

\* the state a completed scan leaves: the scan line is -0.2, over
\* 10 * ScanDuration
ScanCompleted ==
    /\ ~ ui.st.isScanning /\ ui.st.showPassport
    /\ ui.st.brightness = 0
    /\ ui.st.scanLine = 0 - 2 * ScanDuration

\* C33: every scan that is started eventually completes, and the step that
\* completes it leaves isScanning false, the passport visible, the
\* brightness 0 and the scan line at its rest value -0.2
C33_ScanCompletes ==
    /\ (ui.kind = "Consumer" /\ ui.st.isScanning) ~> ScanCompleted
    /\ [][ (ui.kind = "Consumer" /\ ui.st.isScanning /\ ~ ui'.st.isScanning)
              => ScanCompleted' ]_vars

C33_Witness ==
    /\ ui.kind = "Consumer" /\ ui.page = "react"
    /\ ScanCompleted /\ ui.scanLoops = 0 /\ ui.st = ui.next

\* the parts of C34 that do not concern the progress: the reached steps are
\* closed downward, a step that ends a trace leaves every step reached, a
\* Trace click while tracing does not restart the trace, and a trace ends
AllSteps == 0..(JourneySteps - 1)

StepsInOrder ==
    [](ui.kind = "Consumer" =>
          \A k \in ui.reached : \A j \in 0..k : j \in ui.reached)

TraceEndsComplete ==
    /\ [][ (ui.kind = "Consumer" /\ ui.st.isTracing /\ ~ ui'.st.isTracing)
              => ui'.reached = AllSteps ]_vars
    /\ (ui.kind = "Consumer" /\ ui.st.isTracing)
           ~> (~ ui.st.isTracing /\ ui.reached = AllSteps)

TraceClickIgnored ==
    [][ (ui.kind = "Consumer" /\ ui.st.isTracing /\ ui'.st.isTracing)
           => ui'.sinceTrace >= ui.sinceTrace ]_vars

\* C34 as stated: during a trace the steps become reached in index order
\* and the trace progress never decreases; when the trace completes all
\* steps are reached and isTracing is false; a Trace click while tracing
\* has no effect
C34_Original ==
    /\ StepsInOrder /\ TraceEndsComplete /\ TraceClickIgnored
    /\ [][ (ui.kind = "Consumer" /\ ui.st.isTracing /\ ui'.st.isTracing)
              => ui'.st.traceProgress >= ui.st.traceProgress ]_vars

\* C34: as stated, except that the plain-script page leaves the trace line
\* at the previous trace's progress when Trace is clicked, so that the
\* first frame of a trace may set the progress back; from then on, and on
\* the React page throughout, the progress never decreases during a trace
C34_TraceInOrder ==
    /\ StepsInOrder /\ TraceEndsComplete /\ TraceClickIgnored
    /\ [][ ( /\ ui.kind = "Consumer" /\ ui.st.isTracing /\ ui'.st.isTracing
             /\ ui.page = "react" \/ ui.sinceTrace > 0 )
              => ui'.st.traceProgress >= ui.st.traceProgress ]_vars

C34_Witness ==
    /\ ui.kind = "Consumer" /\ ui.page = "script"
    /\ ui.st.isTracing /\ ui.ignored = "trace"
    /\ ui.reached = {0, 1} /\ ui.sinceTrace > 0

----------------------------------------------------------------------------
(* Claims about the product info panels (checked under SpecTile) *)

\* C36: for each product transition the panels slide out exactly once and
\* then slide in exactly once; once the transition is over and the panels
\* are shown the displayed product is the current product; and whenever the
\* phase is neither preload nor cycling no product is displayed
C36_SlidesOncePerTransition ==
    ui.kind = "Tile" =>
        /\ ui.slideOuts <= 1 /\ ui.slideIns <= ui.slideOuts
        /\ ui.phase \notin {"preload", "cycling"} => ui.displayProduct = NoIdx
        /\ ( /\ ~ ui.isTransitioning /\ ~ EffectsDue
             /\ ui.isVisible /\ ~ ui.isSlidingOut )
               => /\ ui.displayProduct = ui.currentProduct
                  /\ ui.slot > 0 => (ui.slideOuts = 1 /\ ui.slideIns = 1)

====
